---- MODULE Spec2Model ----
(***************************************************************************)
(* A model of torchdynamo's frame interception engine:                     *)
(*   - convert_frame.py: Tracker, has_tensor_in_frame,                     *)
(*     convert_frame_assert._convert_frame_assert, convert_frame           *)
(*   - eval_frame.py: _TorchDynamoContext (with-block and decorator form), *)
(*     catch_errors_wrapper                                                *)
(* The symbolic tracer, the guard builder and the native frame-evaluation  *)
(* hook are not part of these sources; they are modelled from the design   *)
(* document.                                                               *)
(***************************************************************************)
EXTENDS Integers, Sequences, FiniteSets, TLC

VARIABLES
    cache_size_limit,   \* config.cache_size_limit
    input_codes,        \* Tracker: [seen, seen_ids]
    output_codes,       \* Tracker: [seen, seen_ids]
    orig_code_map,      \* utils.orig_code_map: output code -> original code
    cleanups,           \* CleanupManager.instance: codes with cleanups
    guard_failures,     \* utils.guard_failures: code -> recorded reasons
    cache,              \* the hook's per-code cache: code -> <<entry>>
    always_optimize_code_objects, \* eval_frame.always_optimize_code_objects
    last,               \* the intercepted call whose frame is being evaluated
    calls,              \* how many calls have been intercepted
    callback,           \* the active eval-frame callback of the thread
    ctxs,               \* the _TorchDynamoContext objects: [prior, entered]
    stack,              \* the open scopes of the thread, innermost last
    ctxlog,             \* what the most recent scope operation did
    bctx,               \* what it did with the backend context
    compile_lock,       \* eval_frame.compile_lock: the thread inside "with", 0 if free
    th,                 \* the threads: where each is in catch_errors
    lastwrite,          \* the last write to the trackers or orig_code_map
    patch_cache,        \* lru_cache of TorchPatcher.patch: a result is stored
    wraps,              \* how many times torch.jit.trace has been wrapped
    ctor,               \* the threads constructing an OptimizeContext
    ex,                 \* the export(f, *args) call in progress
    wb,                 \* config.verify_correctness and the backend's wrapping
    fr,                 \* a traced function's graph fragments
    dynamic_shapes,     \* config.dynamic_shapes
    sizes,              \* the input sizes opt_fn has been called with
    scan,               \* a has_tensor_in_frame scan of an object graph
    deco,               \* the last function wrapped by a context object
    wcc,                \* torch's global state around wrap_convert_context
    shared,             \* one context object used by two threads
    trk,                \* a Tracker, the objects alive and what was added
    att,                \* the attempts of one conversion's restart loop
    cg                  \* a CudaGraphModule

convVars == <<cache_size_limit, input_codes,
              output_codes, orig_code_map, cleanups, guard_failures, cache,
              always_optimize_code_objects, last, calls>>
ctxVars == <<callback, ctxs, stack, ctxlog, bctx>>
thrVars == <<compile_lock, th, lastwrite>>
patchVars == <<patch_cache, wraps, ctor>>
extVars == <<ex, wb>>
auxVars == <<fr, dynamic_shapes, sizes, scan>>
modVars == <<deco, wcc, shared, trk, att, cg>>
vars == <<convVars, ctxVars, thrVars, patchVars, extVars, auxVars, modVars>>

(***************************************************************************)
(* Bounds of the model.                                                    *)
(***************************************************************************)
MaxLimit == 2          \* config.cache_size_limit ranges over 0..MaxLimit
NumOutAddrs == 3       \* addresses available to generated code objects
MaxInput == 1          \* call arguments range over 0..MaxInput
MaxCalls == 2          \* intercepted calls in one run
MaxDepth == 2          \* open scopes on the thread
MaxAttemptSlack == 4   \* attempts looked at beyond the restart ceiling
NumThreads == 2        \* threads of the process
MaxIfs == 3            \* if-blocks of the function whose paths rejoin

(***************************************************************************)
(* Program constants.                                                      *)
(***************************************************************************)
RestartCeiling == 100  \* "if attempt > 100" in the restart loop

(***************************************************************************)
(* The object graph the frames' locals and globals point into.             *)
(* kind:  Tensor | Module | List (list, tuple) | Dict | Prim (str, int,    *)
(*        float, None, bool) | NamedTuple | Obj (has __dict__) |           *)
(*        Allowed (is_allowed(obj), e.g. the torch module) | Other |       *)
(*        Raising (looking up an attribute of the object raises)           *)
(* kids:  the elements / values / fields / __dict__ values, in order       *)
(***************************************************************************)
Heap ==
    [o \in 1..11 |->
        CASE o = 1  -> [kind |-> "Tensor",     kids |-> <<>>]
          [] o = 2  -> [kind |-> "Prim",       kids |-> <<>>]
          [] o = 3  -> [kind |-> "List",       kids |-> <<2, 2>>]
          [] o = 4  -> [kind |-> "List",       kids |-> <<2, 1>>]
          [] o = 5  -> [kind |-> "Obj",        kids |-> <<4>>]
          [] o = 6  -> [kind |-> "Dict",       kids |-> <<6, 3>>]
          [] o = 7  -> [kind |-> "Module",     kids |-> <<>>]
          [] o = 8  -> [kind |-> "Allowed",    kids |-> <<1>>]
          [] o = 9  -> [kind |-> "Other",      kids |-> <<1>>]
          [] o = 10 -> [kind |-> "NamedTuple", kids |-> <<2, 7>>]
          [] OTHER  -> [kind |-> "Raising",    kids |-> <<>>]]

\* allowed_functions.is_allowed
is_allowed(h, obj) == h[obj].kind = "Allowed"

\* The values of frame.f_locals, in order, that the calls are made with.
LocalsChoices == { <<3, 6>>, <<9, 8>>, <<2, 5>> }

\* The objects reachable from the roots through list/tuple elements, dict
\* values, namedtuple fields and object attributes.
RECURSIVE Reachable(_, _)
Reachable(h, S) ==
    LET N == S \cup UNION { { h[o].kids[i] : i \in 1..Len(h[o].kids) } :
                  o \in { p \in S : h[p].kind \in {"List", "Dict", "NamedTuple",
                                                  "Obj", "Allowed"} } }
    IN  IF N = S THEN S ELSE Reachable(h, N)

\* A Tensor or nn.Module is among the locals or nested in them.
TensorInLocals(h, roots) ==
    \E o \in Reachable(h, { roots[i] : i \in 1..Len(roots) }) :
        h[o].kind \in {"Tensor", "Module"}

(***************************************************************************)
(* has_tensor_in_frame.has_tensor: the memoised recursive scan.  seen_ids  *)
(* is threaded through the calls as the code's dictionary is; the result   *)
(* is [res, seen].  A list comprehension evaluates every element, so       *)
(* ScanKids visits all kids before any() is taken.                         *)
(***************************************************************************)
RECURSIVE has_tensor(_, _, _)
RECURSIVE ScanKids(_, _, _, _, _)

\* The scan of a container that looks at its first element only.
ScanKids_first(h, kids, i, seen, acc) ==
    IF i > Len(kids) \/ i > 1 THEN [res |-> acc, seen |-> seen]
    ELSE LET r == has_tensor(h, kids[i], seen)
         IN  ScanKids(h, kids, i + 1, r.seen, acc \/ r.res)

ScanKids(h, kids, i, seen, acc) ==
    IF i > Len(kids) THEN [res |-> acc, seen |-> seen]
    ELSE LET r == has_tensor(h, kids[i], seen)
         IN  ScanKids(h, kids, i + 1, r.seen, acc \/ r.res)

MemoPut(seen, obj, v) == [o \in DOMAIN seen \cup {obj} |-> IF o = obj THEN v ELSE seen[o]]

\* has_tensor with the provisional memo entry set to True.
has_tensor_provisional(h, obj, seen) ==
    IF obj \in DOMAIN seen THEN [res |-> seen[obj], seen |-> seen]
    ELSE LET s0 == MemoPut(seen, obj, TRUE)
             k == h[obj].kind
         IN  IF k \in {"Tensor", "Module"}
                 THEN [res |-> TRUE, seen |-> MemoPut(s0, obj, TRUE)]
             ELSE IF k \in {"List", "Dict", "NamedTuple"}
                 THEN LET r == ScanKids(h, h[obj].kids, 1, s0, FALSE)
                      IN  [res |-> r.res, seen |-> MemoPut(r.seen, obj, r.res)]
             ELSE IF k = "Prim"
                 THEN [res |-> FALSE, seen |-> MemoPut(s0, obj, FALSE)]
             ELSE IF ~is_allowed(h, obj) /\ k = "Obj" /\ Len(h[obj].kids) > 0
                 THEN LET r == ScanKids(h, h[obj].kids, 1, s0, FALSE)
                      IN  [res |-> r.res, seen |-> MemoPut(r.seen, obj, r.res)]
             ELSE [res |-> FALSE, seen |-> s0]

has_tensor(h, obj, seen) ==
    IF obj \in DOMAIN seen THEN [res |-> seen[obj], seen |-> seen]
    ELSE LET s0 == MemoPut(seen, obj, FALSE)
             k == h[obj].kind
         IN  IF k \in {"Tensor", "Module"}
                 THEN [res |-> TRUE, seen |-> MemoPut(s0, obj, TRUE)]
             ELSE IF k \in {"List", "Dict", "NamedTuple"}
                 THEN LET r == ScanKids(h, h[obj].kids, 1, s0, FALSE)
                      IN  [res |-> r.res, seen |-> MemoPut(r.seen, obj, r.res)]
             ELSE IF k = "Prim"
                 THEN [res |-> FALSE, seen |-> s0]
             ELSE IF ~is_allowed(h, obj) /\ k = "Obj" /\ Len(h[obj].kids) > 0
                 THEN LET r == ScanKids(h, h[obj].kids, 1, s0, FALSE)
                      IN  [res |-> r.res, seen |-> MemoPut(r.seen, obj, r.res)]
             ELSE [res |-> FALSE, seen |-> s0]

\* The loop over frame.f_locals.values(): returns at the first True.
RECURSIVE ScanLocals(_, _, _, _)
ScanLocals(h, roots, i, seen) ==
    IF i > Len(roots) THEN FALSE
    ELSE LET r == has_tensor(h, roots[i], seen)
         IN  IF r.res THEN TRUE ELSE ScanLocals(h, roots, i + 1, r.seen)

EmptyMemo == [o \in {} |-> FALSE]

(***************************************************************************)
(* Code objects.  The addresses 1..NumOrig are the user's functions, which *)
(* stay alive; NumOrig+1 .. NumOrig+NumOutAddrs are the addresses a        *)
(* generated code object can get.  id(obj) is the address.                 *)
(*   gen       is_generator(code)                                          *)
(*   co_names  the names the code references                               *)
(*   globals   frame.f_globals restricted to co_names: name -> heap object *)
(*   builtins  bool(frame.f_builtins)                                      *)
(*   branches  the body branches on a value computed from its argument     *)
(*   shapes    the graph is specialised on the shape of the argument       *)
(***************************************************************************)
CodeTable ==
    << [co_name |-> "fn", co_filename |-> "user.py", gen |-> FALSE,
        co_names |-> <<"len">>, globals |-> <<>>,
        builtins |-> TRUE, branches |-> TRUE, shapes |-> FALSE],
       [co_name |-> "gen", co_filename |-> "user.py", gen |-> TRUE,
        co_names |-> <<>>, globals |-> <<>>,
        builtins |-> TRUE, branches |-> FALSE, shapes |-> FALSE],
       [co_name |-> "opt_fn", co_filename |-> "user.py", gen |-> FALSE,
        co_names |-> <<"helper">>, globals |-> <<<<"helper", 5>>>>,
        builtins |-> TRUE, branches |-> FALSE, shapes |-> TRUE],
       [co_name |-> "uses_torch", co_filename |-> "user.py", gen |-> FALSE,
        co_names |-> <<"helper", "torch">>,
        globals |-> <<<<"helper", 5>>, <<"torch", 8>>>>,
        builtins |-> TRUE, branches |-> FALSE, shapes |-> FALSE],
       [co_name |-> "__setattr__", co_filename |-> "user.py", gen |-> FALSE,
        co_names |-> <<>>, globals |-> <<>>,
        builtins |-> TRUE, branches |-> FALSE, shapes |-> FALSE],
       [co_name |-> "forward", co_filename |-> "torch/nn/modules/module.py",
        gen |-> FALSE, co_names |-> <<>>, globals |-> <<>>,
        builtins |-> TRUE, branches |-> FALSE, shapes |-> FALSE],
       [co_name |-> "__new__", co_filename |-> "<string>", gen |-> FALSE,
        co_names |-> <<>>, globals |-> <<>>,
        builtins |-> TRUE, branches |-> FALSE, shapes |-> FALSE] >>

NumOrig == Len(CodeTable)
OrigCodes == 1..NumOrig
OutAddrs == (NumOrig + 1)..(NumOrig + NumOutAddrs)
Addrs == OrigCodes \cup OutAddrs


(***************************************************************************)
(* class Tracker.  seen holds the weak references (the referents that are  *)
(* alive; a dead weak reference stays in the list but can no longer fire   *)
(* or be looked up), seen_ids the ids.                                     *)
(***************************************************************************)
EmptyTracker == [seen |-> {}, seen_ids |-> {}]

\* TrackerAdd without self.seen_ids.add(idx).
TrackerAdd_noid(t, strong_obj) ==
    IF strong_obj \notin t.seen_ids
        THEN [seen |-> t.seen \cup {strong_obj}, seen_ids |-> t.seen_ids]
        ELSE t

TrackerAdd(t, strong_obj) ==
    IF strong_obj \notin t.seen_ids
        THEN [seen |-> t.seen \cup {strong_obj},
              seen_ids |-> t.seen_ids \cup {strong_obj}]
        ELSE t

TrackerContains(t, item) == item \in t.seen_ids

TrackerClear(t) == [seen |-> {}, seen_ids |-> {}]

\* The weak reference's callback, run when the referent dies:
\* lambda _: self.seen_ids.remove(idx)
TrackerFinalize(t, obj) ==
    IF obj \in t.seen
        THEN [seen |-> t.seen \ {obj}, seen_ids |-> t.seen_ids \ {obj}]
        ELSE t

(***************************************************************************)
(* The code objects of the program.                                        *)
(***************************************************************************)
\* The cache entries of all code objects.
Entries(ch) == UNION { { ch[c][i] : i \in 1..Len(ch[c]) } : c \in DOMAIN ch }

\* Generated code objects that are alive: the cache holds them.
LiveOut(ch) == { e.code : e \in Entries(ch) }

\* The original function a code object was generated from (itself for a
\* user function): a generated code object carries its original's options.
OrigOf(ch, c) ==
    IF c \in OrigCodes THEN c
    ELSE (CHOOSE e \in Entries(ch) : e.code = c).orig

Row(ch, c) == CodeTable[OrigOf(ch, c)]

\* The address the next code object gets.
FreshAddr(ch) == CHOOSE a \in OutAddrs \ LiveOut(ch) :
                     \A b \in OutAddrs \ LiveOut(ch) : a <= b

(***************************************************************************)
(* has_tensor_in_frame                                                     *)
(***************************************************************************)
HasAllowedGlobal(row) ==
    \E i \in 1..Len(row.co_names) : \E j \in 1..Len(row.globals) :
        /\ row.globals[j][1] = row.co_names[i]
        /\ is_allowed(Heap, row.globals[j][2])

\* is_namedtuple(obj) and hasattr(obj, "__dict__") look attributes up on the
\* object: a property that raises anything but AttributeError makes the scan
\* raise.  The first local is scanned first.
ScanRaises(h, roots) == Len(roots) > 0 /\ h[roots[1]].kind = "Raising"

\* has_tensor_in_frame raises instead of returning.
has_tensor_in_frame_raises(always, code, row, locals) ==
    /\ code \notin always
    /\ ~HasAllowedGlobal(row)
    /\ ScanRaises(Heap, locals)

has_tensor_in_frame(always, code, row, locals) ==
    IF code \in always THEN TRUE
    ELSE IF HasAllowedGlobal(row) THEN TRUE
    ELSE ScanLocals(Heap, locals, 1, EmptyMemo)

(***************************************************************************)
(* The symbolic tracer and the guards, from the design document: one       *)
(* execution path is traced, a branch on a traced value records a guard on *)
(* its outcome, and the check function passes when every guard holds.      *)
(***************************************************************************)
Inputs == 0..MaxInput

\* What the function computes when it is interpreted.
Interpreted(row, x) ==
    IF row.branches THEN (IF x > 0 THEN x + 10 ELSE x + 20) ELSE x + 1

TracePath(row, x) ==
    IF row.branches THEN (IF x > 0 THEN "then" ELSE "else") ELSE "straight"

\* The guards of a trace that specializes on the input size whatever
\* config.dynamic_shapes is.
TraceGuards_static(row, x) ==
    (IF row.branches THEN {[kind |-> "branch", val |-> IF x > 0 THEN 1 ELSE 0]} ELSE {})
    \cup (IF row.shapes THEN {[kind |-> "shape", val |-> x]} ELSE {})

TraceGuards(row, x) ==
    (IF row.branches THEN {[kind |-> "branch", val |-> IF x > 0 THEN 1 ELSE 0]} ELSE {})
    \cup (IF row.shapes /\ ~dynamic_shapes
              THEN {[kind |-> "shape", val |-> x]} ELSE {})

RunPath(path, x) ==
    CASE path = "then" -> x + 10
      [] path = "else" -> x + 20
      [] OTHER -> x + 1

CheckGuard(g, x) ==
    IF g.kind = "branch" THEN (IF x > 0 THEN 1 ELSE 0) = g.val ELSE x = g.val

CheckFn(guards, x) == \A g \in guards : CheckGuard(g, x)

(***************************************************************************)
(* What the tracer does in one conversion: the first `restarts` attempts   *)
(* raise RestartAnalysis, the next one ends with `final`; after a          *)
(* completed attempt, `post` is what the steps after the loop meet.        *)
(***************************************************************************)
TracerFinals == {"Completed", "SkipFrame", "Unsupported", "TorchRuntimeError",
                 "BackendCompilerFailed", "AssertionError", "Exception"}

TracerScripts ==
    { [restarts |-> 0, final |-> f, post |-> "ok"] : f \in TracerFinals \cup {"GraphBreak"} }
    \cup { [restarts |-> n, final |-> f, post |-> "ok"] :
               n \in {1, RestartCeiling + 1}, f \in {"Completed", "SkipFrame"} }
    \cup { [restarts |-> 0, final |-> "RestartAnalysis", post |-> "ok"] }
    \cup { [restarts |-> 0, final |-> "Completed", post |-> q] :
               q \in {"guards_none", "check_fn_error"} }

\* The tracer's behaviours without a restart.
DirectScripts ==
    { sc \in TracerScripts :
        /\ sc.restarts = 0 /\ sc.post = "ok"
        /\ sc.final \in {"Completed", "SkipFrame", "Unsupported", "BackendCompilerFailed"} }

\* A graph break is an error when the frame must become one graph and
\* otherwise ends the graph, the rest being traced as a resume function.
TracerOutcome(final, one_graph) ==
    IF final = "GraphBreak"
        THEN (IF one_graph THEN "Unsupported" ELSE "Completed")
        ELSE final

TracerEvent(sc, attempt) ==
    IF attempt < sc.restarts THEN "RestartAnalysis" ELSE sc.final

(***************************************************************************)
(* convert_frame_assert._convert_frame_assert                              *)
(*                                                                         *)
(* st is the process-wide state the function writes: [input_codes,         *)
(* output_codes, orig_code_map, cleanups]; the result carries the state it *)
(* leaves and                                                              *)
(*   ret     "None" | "GuardedCode" | "" (an exception left the function)  *)
(*   exc     the exception that left the function, "" if none              *)
(*   early   which check ended the call before the tracer, "" if none      *)
(*   runs    how many times the tracer was run                             *)
(*   trace   how the last tracing attempt ended, "" if there was none      *)
(*   logged  the guard failure reason the cache limit warning printed      *)
(*   code, guards, path   the GuardedCode's contents                       *)
(***************************************************************************)
\* No guard failure reason was printed.
NoReason == <<>>

Result(st, ret, exc, msg, early) ==
    [st |-> st, ret |-> ret, exc |-> exc, msg |-> msg, early |-> early,
     runs |-> 0, trace |-> "", logged |-> NoReason, code |-> 0, guards |-> {},
     path |-> ""]

\* The for loop over itertools.count().  An attempt leaves the loop unless
\* it raises RestartAnalysis with attempt <= 100 (the handler then falls
\* through to the next iteration); the loop is left at the first such
\* attempt, after attempt + 1 runs of the tracer.
\* LeavesLoop with "attempt >= 100".
LeavesLoop_ge(sc, attempt) ==
    LET ev == TracerEvent(sc, attempt)
    IN  IF ev = "RestartAnalysis" THEN attempt >= RestartCeiling ELSE TRUE

LeavesLoop(sc, attempt) ==
    LET ev == TracerEvent(sc, attempt)
    IN  IF ev = "RestartAnalysis" THEN attempt > RestartCeiling ELSE TRUE

\* LoopEnd without the SkipFrame handler's return: the loop is left as after
\* a completed attempt.
LoopEnd_skipbreak(sc, attempt) ==
    LET ev == TracerEvent(sc, attempt)
    IN  IF ev \in {"Completed", "SkipFrame"} THEN "break"
        ELSE IF ev = "RestartAnalysis" THEN "unimplemented"
        ELSE ev

LoopEnd(sc, attempt) ==
    LET ev == TracerEvent(sc, attempt)
    IN  IF ev = "Completed" THEN "break"
        ELSE IF ev = "RestartAnalysis" THEN "unimplemented"
        ELSE ev

RestartLoop(sc) ==
    LET attempt == CHOOSE a \in 0..(RestartCeiling + MaxAttemptSlack) :
                       /\ LeavesLoop(sc, a)
                       /\ \A b \in 0..(a - 1) : ~LeavesLoop(sc, b)
    IN  [end |-> LoopEnd(sc, attempt), runs |-> attempt + 1,
         event |-> TracerEvent(sc, attempt)]

\* except (Unsupported, TorchRuntimeError, BackendCompilerFailed,
\*         AssertionError): raise;  except Exception: raise InternalTorchDynamoError()
Reraise(e) ==
    IF e \in {"Unsupported", "TorchRuntimeError", "BackendCompilerFailed", "AssertionError"}
        THEN e
        ELSE "InternalTorchDynamoError"

\* Lines 335-339: check_fn = CheckFunctionManager(output.guards, ...);
\* guarded_code = GuardedCode(code, check_fn.check_fn)
\* GuardedCode with a check function that always passes.
GuardedCode_noguards(base, code, guards, path) ==
    [base EXCEPT !.ret = "GuardedCode", !.code = code, !.guards = {},
                 !.path = path]

\* GuardedCode with a check function that never passes.
GuardedCode_failing(base, code, guards, path) ==
    [base EXCEPT !.ret = "GuardedCode", !.code = code,
                 !.guards = {[kind |-> "shape", val |-> -1]}, !.path = path]

GuardedCode(base, code, guards, path) ==
    [base EXCEPT !.ret = "GuardedCode", !.code = code, !.guards = guards,
                 !.path = path]

\* Lines 310-361: the try block.
ConvertTry(st, ch, frame, sc) ==
    LET loop == RestartLoop(sc)
        row == Row(ch, frame.code)
        code == FreshAddr(ch)
        st1 == [st EXCEPT !.orig_code_map =
                    [c \in DOMAIN @ \cup {code} |-> IF c = code THEN frame.code ELSE @[c]],
                          !.output_codes = TrackerAdd(@, code)]
        st2 == [st1 EXCEPT !.cleanups = @ \cup {code}]
        base == [Result(st, "", "", "", "") EXCEPT !.runs = loop.runs,
                                                   !.trace = loop.event]
    IN  IF loop.end = "break"
            THEN IF sc.post = "guards_none"
                    \* assert output.guards is not None
                    THEN [base EXCEPT !.st = st1, !.exc = Reraise("AssertionError")]
                 ELSE IF sc.post = "check_fn_error"
                    \* CheckFunctionManager(...) raises
                    THEN [base EXCEPT !.st = st2, !.exc = Reraise("Exception")]
                 ELSE GuardedCode([base EXCEPT !.st = st2], code,
                                  TraceGuards(row, frame.x), TracePath(row, frame.x))
        ELSE IF loop.end = "unimplemented"
            THEN [base EXCEPT !.exc = Reraise("Unsupported"),
                              !.msg = "100+ RestartAnalysis() calls"]
        ELSE IF loop.end = "SkipFrame"
            THEN [base EXCEPT !.ret = "None"]
        ELSE [base EXCEPT !.exc = Reraise(loop.end)]

\* Line 263: if cache_size >= config.cache_size_limit
\* CacheLimitReached with ">" for ">=".
CacheLimitReached_gt(cache_size, limit) == cache_size > limit

CacheLimitReached(cache_size, limit) == cache_size >= limit

\* Lines 264-280: what is done at the cache size limit.
CacheLimitCheck(st, gf, code) ==
    IF code \notin DOMAIN gf
        \* assert code in guard_failures
        THEN Result(st, "", "AssertionError", "TODO(whc) any other recompile reasons?", "")
        ELSE [Result(st, "", "Unsupported", "cache_size_limit reached", "")
                 EXCEPT !.logged = <<gf[code]>>]

TransformersFiles == {"transformers/file_utils.py", "transformers/utils/generic.py"}

_convert_frame_assert(st, ch, gf, limit, always, dbg, frame, cache_size, sc) ==
    LET code == frame.code
        row == Row(ch, code)
        st0 == [st EXCEPT !.input_codes = TrackerAdd(@, code)]
    IN  IF TrackerContains(st0.output_codes, code)
            THEN Result(st0, "None", "", "", "output_code")
        ELSE IF dbg # "" /\ dbg # row.co_name
            THEN Result(st0, "None", "", "", "debug_function")
        ELSE IF row.co_name = "<genexpr>" /\ row.co_filename \in TransformersFiles
            THEN Result(st0, "None", "", "", "genexpr")
        ELSE IF row.co_name = "__setattr__"
            THEN Result(st0, "None", "", "", "setattr")
        ELSE IF row.co_name = "<module>" /\ row.co_filename = "<string>"
            THEN Result(st0, "None", "", "", "exec")
        ELSE IF row.co_name = "<lambda>" /\ row.co_filename = "<string>" /\ ~row.builtins
            THEN Result(st0, "None", "", "", "namedtuple")
        ELSE IF row.gen
            THEN Result(st0, "", "Unsupported", "generator", "")
        ELSE IF CacheLimitReached(cache_size, limit)
            THEN CacheLimitCheck(st0, gf, code)
        ELSE IF has_tensor_in_frame_raises(always, code, row, frame.locals)
            \* raised outside the try statement
            THEN Result(st0, "", "Exception", "", "")
        ELSE IF ~has_tensor_in_frame(always, code, row, frame.locals)
            THEN Result(st0, "None", "", "", "no_tensor")
        ELSE ConvertTry(st0, ch, frame, sc)

(***************************************************************************)
(* convert_frame._convert_frame: the default callback.  The result is the  *)
(* inner one with what crosses the wrapper in out_ret and out_exc.         *)
(***************************************************************************)
Crossing(r, ret, exc) == r @@ [out_ret |-> ret, out_exc |-> exc]

\* _convert_frame without "except BackendCompilerFailed: raise".
_convert_frame_swallow(r, raise_on_assert) ==
    IF r.exc = "" THEN Crossing(r, r.ret, "")
    ELSE IF r.exc = "AssertionError"
        THEN IF raise_on_assert THEN Crossing(r, "", r.exc) ELSE Crossing(r, "None", "")
    ELSE Crossing(r, "None", "")

_convert_frame(r, raise_on_assert) ==
    IF r.exc = "" THEN Crossing(r, r.ret, "")
    ELSE IF r.exc = "AssertionError"
        THEN IF raise_on_assert THEN Crossing(r, "", r.exc) ELSE Crossing(r, "None", "")
    ELSE IF r.exc = "BackendCompilerFailed" THEN Crossing(r, "", r.exc)
    ELSE Crossing(r, "None", "")

(***************************************************************************)
(* catch_errors_wrapper.catch_errors around the callback of the mode:      *)
(* optimize() installs convert_frame, optimize(nopython=True) and          *)
(* optimize_assert() install convert_frame_assert.                         *)
(***************************************************************************)
Modes == {"optimize", "nopython"}

\* skipfiles.check: the file is one of the skip-listed library files.
skipfiles_check(filename) == filename \in {"torch/nn/modules/module.py"}

\* one_graph=False in both modes.
one_graph_false(mode) == FALSE

\* convert_frame passes one_graph=False, optimize_assert leaves the default
\* one_graph=True.
one_graph(mode) == mode = "nopython"

\* The callback of the mode, called with the frame.
callback_of(st, ch, gf, limit, always, raise_on_assert, dbg, mode, frame, cache_size, sc) ==
    LET sc1 == [sc EXCEPT !.final = TracerOutcome(@, one_graph(mode))]
        r == _convert_frame_assert(st, ch, gf, limit, always, dbg,
                                   frame, cache_size, sc1)
    IN  IF mode = "optimize"
            THEN _convert_frame(r, raise_on_assert)
            ELSE Crossing(r, r.ret, r.exc)

\* catch_errors with the checks moved inside "with compile_lock".
catch_errors_skip_late(frame, row) == ""

\* catch_errors before "with compile_lock": why the frame is not handed to
\* the callback, "" if it is.
catch_errors_skip(frame, row) ==
    IF frame.f_lasti >= 0 THEN "f_lasti"
    ELSE IF skipfiles_check(row.co_filename) THEN "skipfile"
    ELSE IF row.co_filename = "<string>" /\ row.co_name = "__new__"
        THEN "namedtuple_new"
    ELSE ""

catch_errors(st, ch, gf, limit, always, raise_on_assert, dbg, mode, frame, cache_size, sc) ==
    LET row == Row(ch, frame.code)
        skip == catch_errors_skip(frame, row)
    IN  IF skip # ""
            THEN Crossing(Result(st, "None", "", "", skip), "None", "")
            ELSE callback_of(st, ch, gf, limit, always, raise_on_assert, dbg,
                             mode, frame, cache_size, sc)

(***************************************************************************)
(* The frame-evaluation hook, from the design document: on every call it   *)
(* evaluates the guards of the code object's cache entries and runs the    *)
(* first entry whose guards pass; on a miss it reports the guard failure,  *)
(* calls the callback with the number of entries, adds an entry for a      *)
(* returned GuardedCode and runs it, and on None runs the frame            *)
(* unmodified.                                                             *)
(***************************************************************************)
Frames(ch) ==
    [code : OrigCodes \cup LiveOut(ch), locals : LocalsChoices, x : Inputs,
     f_lasti : {-1}]
    \cup [code : OrigCodes, locals : {<<2, 5>>}, x : {0}, f_lasti : {0}]

\* The context the call is made under, the environment variable
\* TORCHDYNAMO_DEBUG_FUNCTION ("" = unset) and config.raise_on_assertion_error
\* as they are when the call is made.
Settings ==
    [mode : Modes, dbg : {""}, raise_on_assert : {FALSE}]
    \cup [mode : {"nopython"}, dbg : {"fn"}, raise_on_assert : {FALSE}]
    \cup [mode : {"optimize"}, dbg : {""}, raise_on_assert : {TRUE}]

\* The first cache entry whose check function passes, 0 if there is none.
Lookup(ents, x) ==
    IF \E i \in 1..Len(ents) : CheckFn(ents[i].guards, x)
        THEN CHOOSE i \in 1..Len(ents) :
                 /\ CheckFn(ents[i].guards, x)
                 /\ \A j \in 1..(i - 1) : ~CheckFn(ents[j].guards, x)
        ELSE 0

\* What running the code object itself on x returns.
RunUnmodified(ch, c, x) ==
    IF c \in OrigCodes THEN Interpreted(CodeTable[c], x)
    ELSE RunPath((CHOOSE e \in Entries(ch) : e.code = c).path, x)

\* guard_fail_hook: the reason the last entry's guards failed is recorded
\* for the code object.
RecordGuardFailure(gf, code, x) ==
    [c \in DOMAIN gf \cup {code} |-> IF c = code THEN x ELSE gf[c]]

\* A code object that is no longer referenced dies: its weak references'
\* callbacks run and the weak-keyed maps drop it.
Finalize(st, dead) ==
    [input_codes |-> [seen |-> st.input_codes.seen \ dead,
                      seen_ids |-> st.input_codes.seen_ids
                                     \ (dead \cap st.input_codes.seen)],
     output_codes |-> [seen |-> st.output_codes.seen \ dead,
                       seen_ids |-> st.output_codes.seen_ids
                                      \ (dead \cap st.output_codes.seen)],
     orig_code_map |-> [c \in DOMAIN st.orig_code_map \ dead |-> st.orig_code_map[c]],
     cleanups |-> st.cleanups \ dead]

State == [input_codes |-> input_codes, output_codes |-> output_codes,
          orig_code_map |-> orig_code_map, cleanups |-> cleanups]

SetState(st) ==
    /\ input_codes' = st.input_codes
    /\ output_codes' = st.output_codes
    /\ orig_code_map' = st.orig_code_map
    /\ cleanups' = st.cleanups

NoCall ==
    [kind |-> "none", code |-> 0, tensor |-> FALSE, x |-> 0, cache_size |-> 0,
     mode |-> "", ret |-> "", exc |-> "", msg |-> "", early |-> "", runs |-> 0,
     trace |-> "", logged |-> NoReason, newcode |-> 0, out_ret |-> "",
     out_exc |-> "", value |-> -1, final |-> "", raise_on_assert |-> FALSE]

HookCall(frame, sc, env) ==
    LET ents == cache[frame.code]
        hit == Lookup(ents, frame.x)
        call == [NoCall EXCEPT !.code = frame.code,
                               !.tensor = TensorInLocals(Heap, frame.locals),
                               !.x = frame.x, !.cache_size = Len(ents),
                               !.mode = env.mode]
    IN  IF hit > 0
            THEN /\ last' = [call EXCEPT !.kind = "hit",
                                         !.value = RunPath(ents[hit].path, frame.x)]
                 /\ UNCHANGED <<input_codes, output_codes, orig_code_map, cleanups,
                                guard_failures, cache>>
            ELSE LET gf == IF Len(ents) > 0
                               THEN RecordGuardFailure(guard_failures, frame.code, frame.x)
                               ELSE guard_failures
                 IN  \E r \in { catch_errors(State, cache, gf, cache_size_limit,
                                             always_optimize_code_objects,
                                             env.raise_on_assert, env.dbg, env.mode,
                                             frame, Len(ents), sc) } :
                     LET ch == IF r.out_ret = "GuardedCode"
                                   THEN [cache EXCEPT ![frame.code] =
                                            Append(@, [code |-> r.code, orig |-> frame.code,
                                                       guards |-> r.guards, path |-> r.path])]
                                   ELSE cache
                         dead == (OutAddrs \cap (r.st.output_codes.seen
                                                  \cup DOMAIN r.st.orig_code_map))
                                   \ LiveOut(ch)
                     IN  /\ guard_failures' = gf
                         /\ cache' = ch
                         /\ SetState(Finalize(r.st, dead))
                         /\ last' = [call EXCEPT
                                       !.kind = "miss", !.ret = r.ret, !.exc = r.exc,
                                       !.msg = r.msg, !.early = r.early, !.runs = r.runs,
                                       !.trace = r.trace, !.logged = r.logged,
                                       !.newcode = r.code, !.out_ret = r.out_ret,
                                       !.out_exc = r.out_exc,
                                       !.final = IF r.runs > 0 THEN sc.final ELSE "",
                                       !.raise_on_assert = env.raise_on_assert,
                                       !.value = IF r.out_exc # "" THEN -1
                                                 ELSE IF r.out_ret = "GuardedCode"
                                                     THEN RunPath(r.path, frame.x)
                                                 ELSE RunUnmodified(cache, frame.code, frame.x)]

\* The tracer's behaviour matters only to a call that reaches the tracer.
AnyScript == [restarts |-> 0, final |-> "Completed", post |-> "ok"]

ReachesTracer(frame, env) ==
    /\ Lookup(cache[frame.code], frame.x) = 0
    /\ catch_errors(State, cache, guard_failures, cache_size_limit,
                    always_optimize_code_objects, env.raise_on_assert,
                    env.dbg, env.mode, frame, Len(cache[frame.code]), AnyScript).runs > 0

\* A call of a function under an optimize context: the whole interception,
\* for a frame of `frames` and a tracer behaving as one of `scripts`.
CallWith(frames, scripts, settings) ==
    /\ last.kind = "none"
    /\ calls < MaxCalls
    /\ calls' = calls + 1
    /\ \E frame \in frames, env \in settings :
          LET traced == ReachesTracer(frame, env)
          IN  \E sc \in (IF traced THEN scripts ELSE {AnyScript}) :
                  /\ (traced /\ sc.final = "Completed")
                         => OutAddrs \ LiveOut(cache) # {}
                  /\ HookCall(frame, sc, env)
    /\ UNCHANGED <<cache_size_limit, always_optimize_code_objects, ctxVars,
                   thrVars, patchVars, extVars>>

CallIn(frames, scripts) ==
    CallWith(frames, scripts, Settings) /\ UNCHANGED <<auxVars, modVars>>

\* with patch("torchdynamo.config.dynamic_shapes", True), before the calls.
SetDynamicShapes ==
    /\ calls = 0
    /\ ~dynamic_shapes
    /\ dynamic_shapes' = TRUE
    /\ UNCHANGED <<convVars, ctxVars, thrVars, patchVars, extVars, fr, sizes, scan, modVars>>

\* opt_fn is called with inputs of size x and its trace completes;
\* TORCHDYNAMO_DEBUG_FUNCTION is not set.
ShapeCall ==
    \E x \in Inputs :
        /\ CallWith([code : {3}, locals : LocalsChoices, x : {x}, f_lasti : {-1}],
                    {AnyScript}, {env \in Settings : env.dbg = ""})
        /\ sizes' = sizes \cup {x}
        /\ UNCHANGED <<fr, dynamic_shapes, scan, modVars>>

\* Calls of every function with every kind of locals.
Call == CallIn(Frames(cache), DirectScripts)

\* Calls of the plain function fn with a tensor argument, the tracer behaving
\* in every way; calls of fn and of the generator with an argument the scan
\* of the locals raises on.
TraceFrames ==
    [code : {1}, locals : {<<2, 5>>}, x : Inputs, f_lasti : {-1}]
    \cup [code : {1, 2}, locals : {<<11, 2>>}, x : {0}, f_lasti : {-1}]

TraceCall == CallIn(TraceFrames, TracerScripts)

\* The frame has been evaluated with the code the hook chose and control is
\* back in the caller.
FrameReturn ==
    /\ last.kind # "none"
    /\ last' = NoCall
    /\ UNCHANGED <<cache_size_limit, input_codes,
                   output_codes, orig_code_map, cleanups, guard_failures, cache,
                   always_optimize_code_objects, calls, ctxVars, thrVars, patchVars, extVars, auxVars, modVars>>

\* eval_frame.reset_code(code): the hook drops the cache entries of one
\* code object; the generated code objects they held die.
ResetCode ==
    /\ last.kind = "none"
    /\ \E c \in OrigCodes :
        /\ cache[c] # <<>>
        /\ cache' = [cache EXCEPT ![c] = <<>>]
        /\ SetState(Finalize(State, { cache[c][i].code : i \in 1..Len(cache[c]) }))
    /\ last' = NoCall
    /\ UNCHANGED <<cache_size_limit, guard_failures,
                   always_optimize_code_objects, calls, ctxVars, thrVars, patchVars, extVars, auxVars, modVars>>

\* torchdynamo.reset(): reset_code for every code object seen, then the
\* trackers, orig_code_map and guard_failures are cleared.
Reset ==
    /\ last.kind = "none"
    /\ cache' = [c \in Addrs |-> <<>>]
    /\ input_codes' = TrackerClear(input_codes)
    /\ output_codes' = TrackerClear(output_codes)
    /\ orig_code_map' = <<>>
    /\ cleanups' = {}
    /\ guard_failures' = <<>>
    /\ last' = NoCall
    /\ UNCHANGED <<cache_size_limit,
                   always_optimize_code_objects, calls, ctxVars, thrVars, patchVars, extVars, auxVars, modVars>>

(***************************************************************************)
(* eval_frame._TorchDynamoContext: the scopes of one thread.               *)
(*   callback  the thread's active callback: "None" (disabled), "False"    *)
(*             (run only), a conversion callback, or the module's `unset`  *)
(*             object                                                      *)
(*   ctxs      the context objects' prior field                            *)
(*   stack     the scopes the thread is in, innermost last: the context,   *)
(*             the form (with-block or decorated function), the local      *)
(*             variable prior of _fn, and the callback that was active     *)
(*             before the entry                                            *)
(*   ctxlog    the last scope operation: the callback before the matching  *)
(*             entry, the callback it left, whether set_eval_frame was     *)
(*             passed `unset`                                              *)
(***************************************************************************)
unset == "unset"

\* optimize(backend), run(), disable()
CtxTable ==
    << [cls |-> "OptimizeContext", callback |-> "convert_frame"],
       [cls |-> "RunOnlyContext", callback |-> "False"],
       [cls |-> "DisableContext", callback |-> "None"] >>

Contexts == 1..Len(CtxTable)

\* The native set_eval_frame(new): installs new and returns the callback it
\* replaces.  What it does with an object that is neither None, False nor
\* callable is not fixed by the sources: it raises leaving the callback as
\* it was, or installs the object.
set_eval_frame(cur, new) ==
    IF new = unset
        THEN { [callback |-> cur, ret |-> cur, raised |-> TRUE],
               [callback |-> new, ret |-> cur, raised |-> FALSE] }
        ELSE { [callback |-> new, ret |-> cur, raised |-> FALSE] }

\* How constructing and entering the backend context ends: OptimizeContext
\* takes the backend's backend_ctx_ctor, the others contextlib.nullcontext.
BackendOutcomes(c) ==
    IF CtxTable[c].cls = "OptimizeContext"
        THEN {"ok", "ctor_raises", "enter_raises"}
        ELSE {"ok"}

\* The backend contexts a scope can get from backend_ctx_ctor:
\* contextlib.nullcontext when the backend has no backend_ctx_ctor, and for
\* an optimize context also a generator-based context manager such as
\* torch.jit.fuser("fuser2").
BackendCtxKinds(c) ==
    IF CtxTable[c].cls = "OptimizeContext"
        THEN {"nullcontext", "contextmanager"}
        ELSE {"nullcontext"}

\* backend_ctx.__exit__ called with nargs arguments: nullcontext.__exit__
\* takes *excinfo, a generator-based context manager's __exit__ takes
\* exactly (typ, value, traceback) and the call raises TypeError otherwise,
\* leaving the context entered.
backend_ctx_exit(kind, nargs) ==
    IF kind = "contextmanager" /\ nargs # 3 THEN "TypeError" ELSE "exited"

NoBackendOp == [op |-> "none", form |-> "", kind |-> "", entered |-> FALSE,
                exited |-> FALSE]

BackendOp(op, form, kind, entered, exited) ==
    [op |-> op, form |-> form, kind |-> kind, entered |-> entered,
     exited |-> exited]

NoScopeOp == [op |-> "none", ctx |-> 0, form |-> "", before |-> "", after |-> "",
              unset_passed |-> FALSE]

ScopeOp(op, c, form, before, after, passed) ==
    [op |-> op, ctx |-> c, form |-> form, before |-> before, after |-> after,
     unset_passed |-> passed]

\* _TorchDynamoContext.__enter__
__enter__(c, outcome) ==
    /\ \E r \in set_eval_frame(callback, CtxTable[c].callback),
           k \in BackendCtxKinds(c) :
        /\ callback' = r.callback
        /\ ctxs' = [ctxs EXCEPT ![c].prior = r.ret]
        /\ IF outcome = "ok"
              THEN /\ stack' = Append(stack, [ctx |-> c, form |-> "with",
                                              prior |-> unset, before |-> callback,
                                              bkind |-> k])
                   /\ ctxlog' = ScopeOp("enter", c, "with", callback, r.callback, FALSE)
                   /\ bctx' = BackendOp("enter", "with", k, TRUE, FALSE)
              \* the exception leaves the with statement: __exit__ is not called
              ELSE /\ stack' = stack
                   /\ ctxlog' = ScopeOp("enter_raised", c, "with", callback,
                                        r.callback, FALSE)
                   /\ bctx' = BackendOp("enter_raised", "with", k, FALSE, FALSE)

\* _TorchDynamoContext.__exit__
__exit__(c) ==
    LET top == stack[Len(stack)]
    IN  \E r \in set_eval_frame(callback, ctxs[c].prior) :
            /\ callback' = r.callback
            /\ ctxs' = [ctxs EXCEPT ![c].prior = unset]
            /\ stack' = SubSeq(stack, 1, Len(stack) - 1)
            /\ ctxlog' = ScopeOp("exit", c, "with", top.before, r.callback,
                                 ctxs[c].prior = unset)
            \* self.backend_ctx.__exit__(exc_type, exc_val, exc_tb)
            /\ bctx' = BackendOp("exit", "with", top.bkind, TRUE,
                                 backend_ctx_exit(top.bkind, 3) = "exited")

\* _TorchDynamoContext.__call__._fn up to the call of fn
_fn_entry(c, outcome) ==
    /\ \E r \in set_eval_frame(callback, CtxTable[c].callback),
           k \in BackendCtxKinds(c) :
        /\ callback' = r.callback
        /\ IF outcome = "ok"
              THEN /\ stack' = Append(stack, [ctx |-> c, form |-> "decorator",
                                              prior |-> r.ret, before |-> callback,
                                              bkind |-> k])
                   /\ ctxlog' = ScopeOp("enter", c, "decorator", callback,
                                        r.callback, FALSE)
                   /\ bctx' = BackendOp("enter", "decorator", k, TRUE, FALSE)
              \* the exception is raised before the try statement is entered
              ELSE /\ stack' = stack
                   /\ ctxlog' = ScopeOp("enter_raised", c, "decorator", callback,
                                        r.callback, FALSE)
                   /\ bctx' = BackendOp("enter_raised", "decorator", k, FALSE, FALSE)
    /\ UNCHANGED ctxs

\* _TorchDynamoContext.__call__._fn: the finally clause
_fn_finally(c) ==
    LET top == stack[Len(stack)]
    IN  /\ \E r \in set_eval_frame(callback, top.prior) :
            /\ callback' = r.callback
            /\ stack' = SubSeq(stack, 1, Len(stack) - 1)
            /\ ctxlog' = ScopeOp("exit", c, "decorator", top.before, r.callback,
                                 top.prior = unset)
            \* backend_ctx.__exit__()
            /\ bctx' = BackendOp("exit", "decorator", top.bkind, TRUE,
                                 backend_ctx_exit(top.bkind, 0) = "exited")
        /\ UNCHANGED ctxs

\* with ctx: ... is entered.
Enter ==
    /\ Len(stack) < MaxDepth
    /\ \E c \in Contexts : __enter__(c, "ok")
    /\ UNCHANGED <<convVars, thrVars, patchVars, extVars, auxVars, modVars>>

\* with ctx: ... is entered and the backend context fails.
EnterRaises ==
    /\ Len(stack) < MaxDepth
    /\ \E c \in Contexts : \E o \in BackendOutcomes(c) \ {"ok"} : __enter__(c, o)
    /\ UNCHANGED <<convVars, thrVars, patchVars, extVars, auxVars, modVars>>

\* The body of the innermost with block ends, normally or with an exception.
Exit ==
    /\ stack # <<>>
    /\ stack[Len(stack)].form = "with"
    /\ __exit__(stack[Len(stack)].ctx)
    /\ UNCHANGED <<convVars, thrVars, patchVars, extVars, auxVars, modVars>>

\* A function decorated with a context is called.
FnEnter ==
    /\ Len(stack) < MaxDepth
    /\ \E c \in Contexts : _fn_entry(c, "ok")
    /\ UNCHANGED <<convVars, thrVars, patchVars, extVars, auxVars, modVars>>

\* A function decorated with a context is called and the backend context fails.
FnEnterRaises ==
    /\ Len(stack) < MaxDepth
    /\ \E c \in Contexts : \E o \in BackendOutcomes(c) \ {"ok"} : _fn_entry(c, o)
    /\ UNCHANGED <<convVars, thrVars, patchVars, extVars, auxVars, modVars>>

\* The innermost decorated function returns or raises.
FnExit ==
    /\ stack # <<>>
    /\ stack[Len(stack)].form = "decorator"
    /\ _fn_finally(stack[Len(stack)].ctx)
    /\ UNCHANGED <<convVars, thrVars, patchVars, extVars, auxVars, modVars>>

(***************************************************************************)
(* Threads.  Each thread's calls are intercepted by the hook, which on a   *)
(* miss calls catch_errors(frame, cache_size) with the number of entries   *)
(* it counted; catch_errors runs the callback inside "with compile_lock".  *)
(*   pc      "idle" | "acquire" (at "with compile_lock") | "converting"    *)
(*           (inside the callback)                                         *)
(*   depth   1 for a call made from user code, 2 for a call intercepted    *)
(*           while the thread's own conversion is running                  *)
(*   outer   the conversion a call of depth 2 interrupted                  *)
(*   kind, ret, exc, out_exc, trace, early   how the thread's last         *)
(*           intercepted call ended                                        *)
(*   locked, converted   the call acquired the lock, ran the callback      *)
(***************************************************************************)
Threads == 1..NumThreads

\* threading.Lock (with a RLock the thread holding the lock could acquire).
CanAcquire_nolock(lock, t) == TRUE

\* compile_lock = threading.Lock(): acquire succeeds only on an unlocked
\* lock, whichever thread holds it.
CanAcquire(lock, t) == lock = 0

NoFrame == [code |-> 0, locals |-> <<>>, x |-> 0, f_lasti |-> -1]

ThIdle ==
    [pc |-> "idle", depth |-> 0, kind |-> "none", frame |-> NoFrame,
     cache_size |-> 0, mode |-> "", outer |-> <<>>, ret |-> "", exc |-> "",
     out_exc |-> "", trace |-> "", early |-> "", locked |-> FALSE,
     converted |-> FALSE]

NoWrite == [what |-> "none", by |-> 0, locked |-> FALSE]

\* The frames the threads' calls create: fn and opt_fn, a frame that has
\* already started, a frame of a skip-listed file and a namedtuple __new__.
ThFrames ==
    [code : {1}, locals : {<<2, 5>>}, x : {0, 1}, f_lasti : {-1}]
    \cup [code : {3, 6, 7}, locals : {<<2, 5>>}, x : {0}, f_lasti : {-1}]
    \cup [code : {1}, locals : {<<2, 5>>}, x : {0}, f_lasti : {0}]

ThScripts ==
    { sc \in DirectScripts :
        sc.final \in {"Completed", "Unsupported", "BackendCompilerFailed"} }

\* The hook on a call of thread t at the given depth: a cache hit runs the
\* entry; on a miss catch_errors is called with the entry count, and either
\* returns None at once or arrives at "with compile_lock".
ThEnter(t, frame, mode, depth) ==
    LET ents == cache[frame.code]
        skip == catch_errors_skip(frame, Row(cache, frame.code))
        call == [ThIdle EXCEPT !.frame = frame, !.cache_size = Len(ents),
                               !.mode = mode]
    IN  IF Lookup(ents, frame.x) > 0
            THEN /\ th' = [th EXCEPT ![t] = [call EXCEPT !.kind = "hit"]]
                 /\ UNCHANGED guard_failures
        ELSE /\ guard_failures' = IF Len(ents) > 0
                                      THEN RecordGuardFailure(guard_failures,
                                                              frame.code, frame.x)
                                      ELSE guard_failures
             /\ IF skip # ""
                   THEN th' = [th EXCEPT ![t] = [call EXCEPT !.kind = "skip",
                                                             !.ret = "None",
                                                             !.early = skip]]
                   ELSE th' = [th EXCEPT ![t] = [call EXCEPT !.pc = "acquire",
                                                             !.kind = "miss",
                                                             !.depth = depth]]

\* Thread t calls a function from user code.
ThCall(t) ==
    /\ th[t].pc = "idle"
    /\ calls < MaxCalls
    /\ calls' = calls + 1
    /\ \E frame \in ThFrames, mode \in Modes : ThEnter(t, frame, mode, 1)
    /\ UNCHANGED <<cache_size_limit, input_codes, output_codes, orig_code_map,
                   cleanups, cache, always_optimize_code_objects, last,
                   compile_lock, lastwrite, ctxVars, patchVars, extVars, auxVars, modVars>>

\* While thread t's conversion is running, a function called by it (from the
\* backend compiler, say) is intercepted and handed to the callback.
ThNestedCall(t) ==
    /\ th[t].pc = "converting"
    /\ th[t].depth = 1
    /\ calls < MaxCalls
    /\ calls' = calls + 1
    /\ \E frame \in ThFrames :
        /\ Lookup(cache[frame.code], frame.x) = 0
        /\ catch_errors_skip(frame, Row(cache, frame.code)) = ""
        /\ th' = [th EXCEPT ![t] =
                     [ThIdle EXCEPT !.pc = "acquire", !.kind = "miss", !.depth = 2,
                                    !.frame = frame,
                                    !.cache_size = Len(cache[frame.code]),
                                    !.mode = th[t].mode,
                                    !.outer = <<th[t]>>]]
    /\ UNCHANGED <<cache_size_limit, input_codes, output_codes, orig_code_map,
                   cleanups, guard_failures, cache, always_optimize_code_objects,
                   last, compile_lock, lastwrite, ctxVars, patchVars, extVars, auxVars, modVars>>

\* with compile_lock: the lock is acquired.
ThAcquire(t) ==
    /\ th[t].pc = "acquire"
    /\ CanAcquire(compile_lock, t)
    /\ compile_lock' = t
    /\ th' = [th EXCEPT ![t].pc = "converting", ![t].locked = TRUE]
    /\ UNCHANGED <<convVars, lastwrite, ctxVars, patchVars, extVars, auxVars, modVars>>

\* A lock released by hand after the callback, not by a with statement.
compile_lock_exit_onreturn(t, exc) == IF exc = "" THEN 0 ELSE t

\* Leaving "with compile_lock": the lock is released, whether the callback
\* returned or raised exc.
compile_lock_exit(t, exc) == 0

\* return callback(frame, cache_size): the callback runs and returns or
\* raises, the with statement releases the lock, and the hook installs a
\* returned GuardedCode.
ThConvertWith(t, scripts) ==
    /\ th[t].pc = "converting"
    /\ \E sc \in scripts :
        \E r \in { callback_of(State, cache, guard_failures, cache_size_limit,
                               always_optimize_code_objects, FALSE, "", th[t].mode,
                               th[t].frame, th[t].cache_size, sc) } :
        LET me == th[t]
            ch == IF r.out_ret = "GuardedCode"
                      THEN [cache EXCEPT ![me.frame.code] =
                               Append(@, [code |-> r.code, orig |-> me.frame.code,
                                          guards |-> r.guards, path |-> r.path])]
                      ELSE cache
            dead == (OutAddrs \cap (r.st.output_codes.seen
                                     \cup DOMAIN r.st.orig_code_map))
                      \ LiveOut(ch)
            done == [me EXCEPT !.pc = "idle", !.depth = 0, !.outer = <<>>,
                               !.ret = r.out_ret, !.exc = r.exc,
                               !.out_exc = r.out_exc, !.trace = r.trace,
                               !.converted = TRUE]
        IN  /\ (r.runs > 0 /\ sc.final = "Completed") => OutAddrs \ LiveOut(cache) # {}
            /\ cache' = ch
            /\ SetState(Finalize(r.st, dead))
            /\ lastwrite' = [what |-> "add", by |-> t, locked |-> compile_lock = t]
            /\ th' = [th EXCEPT ![t] = IF me.depth = 2 THEN me.outer[1] ELSE done]
            /\ compile_lock' = compile_lock_exit(t, r.exc)
    /\ UNCHANGED <<cache_size_limit, guard_failures, always_optimize_code_objects,
                   last, calls, ctxVars, patchVars, extVars, auxVars, modVars>>

ThConvert(t) == ThConvertWith(t, ThScripts)

\* The conversions that fail in every way the callback can, and those that
\* succeed.
LockScripts ==
    { sc \in TracerScripts :
        /\ sc.restarts = 0 /\ sc.post = "ok"
        /\ sc.final \in {"Completed", "Unsupported", "BackendCompilerFailed",
                         "AssertionError", "Exception"} }

ThConvertAny(t) == ThConvertWith(t, LockScripts)

\* Thread t, outside any conversion, calls reset_code(c): the entries of c are
\* dropped, the generated code objects die and their weak references'
\* callbacks (lambda _: self.seen_ids.remove(idx)) run on thread t.
ThResetCode(t) ==
    /\ th[t].pc = "idle"
    /\ \E c \in OrigCodes :
        /\ cache[c] # <<>>
        /\ cache' = [cache EXCEPT ![c] = <<>>]
        /\ SetState(Finalize(State, { cache[c][i].code : i \in 1..Len(cache[c]) }))
    /\ lastwrite' = [what |-> "remove", by |-> t, locked |-> compile_lock = t]
    /\ UNCHANGED <<cache_size_limit, guard_failures, always_optimize_code_objects,
                   last, calls, compile_lock, th, ctxVars, patchVars, extVars, auxVars, modVars>>

ThrInit ==
    /\ compile_lock = 0
    /\ th = [t \in Threads |-> ThIdle]
    /\ lastwrite = NoWrite

(***************************************************************************)
(* TorchPatcher.patch, called by every OptimizeContext.__init__ as         *)
(* patch_fn().  functools.lru_cache(None) looks the call up in its cache,  *)
(* on a miss calls the function and stores the result when it returns;     *)
(* the body runs statement by statement and another thread can run         *)
(* between two statements.                                                 *)
(*   patch_cache  the cache holds the result                               *)
(*   wraps[i]     how many times PatchedFns[i] was replaced by             *)
(*                disable(itself)                                          *)
(*   ctor[t]      pc: 0 outside patch, i before the i-th statement of the  *)
(*                body; made: the contexts thread t has constructed        *)
(***************************************************************************)
PatchedFns ==
    << "torch.jit.trace", "torch.jit.trace_module", "torch.jit._get_trace_graph",
       "torch.fx._symbolic_trace.Tracer.trace", "torch.onnx.export_to_pretty_string" >>

\* OptimizeContext(...) is constructed on thread t: __init__ calls patch_fn().
Construct(t) ==
    /\ ctor[t].pc = 0
    /\ ctor[t].made < MaxCalls
    /\ IF patch_cache
          THEN ctor' = [ctor EXCEPT ![t].made = @ + 1]
          ELSE ctor' = [ctor EXCEPT ![t].pc = 1]
    /\ UNCHANGED <<patch_cache, wraps, convVars, ctxVars, thrVars, extVars, auxVars, modVars>>

\* One statement of the body of patch on thread t; after the last one the
\* result is stored and __init__ returns.
PatchStep(t) ==
    /\ ctor[t].pc > 0
    /\ wraps' = [wraps EXCEPT ![ctor[t].pc] = @ + 1]
    /\ IF ctor[t].pc = Len(PatchedFns)
          THEN /\ patch_cache' = TRUE
               /\ ctor' = [ctor EXCEPT ![t] = [pc |-> 0, made |-> @.made + 1]]
          ELSE /\ ctor' = [ctor EXCEPT ![t].pc = @ + 1]
               /\ UNCHANGED patch_cache
    /\ UNCHANGED <<convVars, ctxVars, thrVars, extVars, auxVars, modVars>>

PatchInit ==
    /\ patch_cache = FALSE
    /\ wraps = [i \in 1..Len(PatchedFns) |-> 0]
    /\ ctor = [t \in Threads |-> [pc |-> 0, made |-> 0]]

(***************************************************************************)
(* eval_frame.export(f, *args): f is called once under                     *)
(* optimize_assert(dynamo_normalization_capturing_compiler, null_context,  *)
(* guard_export_print); the frames the call creates are intercepted one    *)
(* after the other.                                                        *)
(*   pc          "idle" | "tracing" (inside the with block) | "done"       *)
(*   graph       the nonlocal graph: "None" or "gm"                        *)
(*   out_guards  the nonlocal out_guards: "None" or "guards"               *)
(*   ngraph      how many times the capturing compiler was called          *)
(*   nguards     how many times guard_export_print was called              *)
(*   installed   how many GuardedCode the callback returned to the hook    *)
(*   ret, exc    "tuple" when export returned, else the exception raised   *)
(***************************************************************************)
NoExport ==
    [pc |-> "idle", graph |-> "None", out_guards |-> "None", ngraph |-> 0,
     nguards |-> 0, installed |-> 0, ret |-> "", exc |-> ""]

\* guard_export_print without its assertion.
guard_export_print_noassert(e) ==
    [raised |-> FALSE,
     ex |-> [e EXCEPT !.out_guards = "guards", !.nguards = @ + 1]]

\* export.guard_export_print
guard_export_print(e) ==
    IF e.out_guards # "None"
        THEN [raised |-> TRUE, ex |-> [e EXCEPT !.nguards = @ + 1]]
        ELSE [raised |-> FALSE,
              ex |-> [e EXCEPT !.out_guards = "guards", !.nguards = @ + 1]]

\* export.dynamo_normalization_capturing_compiler
dynamo_normalization_capturing_compiler(e) ==
    IF e.graph # "None"
        THEN [raised |-> TRUE, ex |-> [e EXCEPT !.ngraph = @ + 1]]
        ELSE [raised |-> FALSE,
              ex |-> [e EXCEPT !.graph = "gm", !.ngraph = @ + 1]]

\* The tracer calls the backend compiler on a finished graph that has
\* operations; an exception of the compiler is classified as
\* BackendCompilerFailed.
call_user_compiler(final, raised) ==
    IF raised THEN "BackendCompilerFailed" ELSE final

\* What the tracer makes of a frame during export: a whole graph with or
\* without operations, a graph break, or SkipFrame.
ExportScripts ==
    { [final |-> "Completed", ops |-> TRUE], [final |-> "Completed", ops |-> FALSE],
      [final |-> "GraphBreak", ops |-> TRUE], [final |-> "SkipFrame", ops |-> FALSE] }

\* The frames f(*args) creates: functions with a tensor argument and a
\* function without one.
ExportFrames ==
    [code : {1, 3}, locals : {<<2, 5>>}, x : Inputs, f_lasti : {-1}]
    \cup [code : {1}, locals : {<<3, 6>>}, x : {0}, f_lasti : {-1}]

TracerScript(final) == [restarts |-> 0, final |-> final, post |-> "ok"]

\* Lines 347-350 with guard_export_fn = guard_export_print: the callback's
\* result for a frame whose GuardedCode was built.
ExportGuards(r, ge) ==
    IF ge.raised
        THEN [r EXCEPT !.ret = "", !.exc = "AssertionError",
                       !.out_ret = "", !.out_exc = "AssertionError"]
        ELSE r

\* with optimize_assert(...): is entered and f is called.
ExportStart ==
    /\ ex.pc = "idle"
    /\ ex' = [NoExport EXCEPT !.pc = "tracing"]
    /\ UNCHANGED <<convVars, ctxVars, thrVars, patchVars, wb, auxVars, modVars>>

\* A frame of the traced call is intercepted.
ExportFrame ==
    /\ ex.pc = "tracing"
    /\ calls < MaxCalls
    /\ calls' = calls + 1
    /\ \E frame \in ExportFrames, es \in ExportScripts :
        LET ents == cache[frame.code]
            gf == IF Len(ents) > 0
                      THEN RecordGuardFailure(guard_failures, frame.code, frame.x)
                      ELSE guard_failures
        IN  IF Lookup(ents, frame.x) > 0
                THEN UNCHANGED <<ex, input_codes, output_codes, orig_code_map,
                                 cleanups, guard_failures, cache>>
            ELSE
            \E r0 \in { catch_errors(State, cache, gf, cache_size_limit,
                                     always_optimize_code_objects, FALSE, "",
                                     "nopython", frame, Len(ents),
                                     TracerScript(es.final)) } :
            \E comp \in { IF r0.runs > 0 /\ es.final = "Completed" /\ es.ops
                              THEN dynamo_normalization_capturing_compiler(ex)
                              ELSE [raised |-> FALSE, ex |-> ex] } :
            \E r1 \in { catch_errors(State, cache, gf, cache_size_limit,
                                     always_optimize_code_objects, FALSE, "",
                                     "nopython", frame, Len(ents),
                                     TracerScript(call_user_compiler(es.final,
                                                                     comp.raised))) } :
            \E ge \in { IF r1.ret = "GuardedCode"
                            THEN guard_export_print(comp.ex)
                            ELSE [raised |-> FALSE, ex |-> comp.ex] } :
            \E r \in { ExportGuards(r1, ge) } :
            LET ch == IF r.out_ret = "GuardedCode"
                          THEN [cache EXCEPT ![frame.code] =
                                   Append(@, [code |-> r.code, orig |-> frame.code,
                                              guards |-> r.guards, path |-> r.path])]
                          ELSE cache
                dead == (OutAddrs \cap (r.st.output_codes.seen
                                         \cup DOMAIN r.st.orig_code_map))
                          \ LiveOut(ch)
            IN  /\ (r0.runs > 0 /\ es.final = "Completed")
                       => OutAddrs \ LiveOut(cache) # {}
                /\ guard_failures' = gf
                /\ cache' = ch
                /\ SetState(Finalize(r.st, dead))
                /\ ex' = IF r.out_exc # ""
                             \* the exception leaves f and the with block
                             THEN [ge.ex EXCEPT !.pc = "done", !.exc = r.out_exc]
                         ELSE IF r.out_ret = "GuardedCode"
                             THEN [ge.ex EXCEPT !.installed = @ + 1]
                         ELSE ge.ex
    /\ UNCHANGED <<cache_size_limit, always_optimize_code_objects, last,
                   ctxVars, thrVars, patchVars, wb, auxVars, modVars>>

\* f has returned and the with block is left: the assertions on graph and
\* out_guards, then the comparison of the input and output layouts, which
\* fails with "Spec mismatch" or lets export return.
ExportReturn ==
    /\ ex.pc = "tracing"
    /\ \E spec_ok \in BOOLEAN :
        ex' = IF ex.graph = "None" \/ ex.out_guards = "None" \/ ~spec_ok
                  THEN [ex EXCEPT !.pc = "done", !.exc = "AssertionError"]
                  ELSE [ex EXCEPT !.pc = "done", !.ret = "tuple"]
    /\ UNCHANGED <<convVars, ctxVars, thrVars, patchVars, wb, auxVars, modVars>>

(***************************************************************************)
(* convert_frame.wrap_compiler_fn and eval_frame.WrapperBackend.           *)
(*   verify    config.verify_correctness                                   *)
(*   wrapped   what convert_frame_assert made of the backend when          *)
(*             optimize() was called: "none" (not called yet), "raw" (the  *)
(*             backend itself) or "wrapper" (a WrapperBackend)             *)
(*   params    the graph module's parameters: "orig", or "mutated" by a    *)
(*             run of the graph                                            *)
(*   last      the last call of the backend for a graph                    *)
(* A backend's candidate is None, the module's own forward, a callable     *)
(* whose outputs match the original's ("good"), one whose outputs differ   *)
(* ("bad") or one that raises when it is run ("raises"); mut says whether  *)
(* running the graph on the example inputs writes to the parameters.       *)
(***************************************************************************)
NoBackendCall ==
    [verify |-> FALSE, wrapped |-> "none", cand |-> "", mut |-> FALSE,
     ret |-> "", exc |-> "", compared |-> FALSE, restored |-> FALSE,
     params |-> "orig"]

\* wrap_compiler_fn
wrap_compiler_fn(verify) == IF verify THEN "wrapper" ELSE "raw"

\* same(correct, result)
same(cand) == cand = "good"

\* WrapperBackend.__call__ with self.restore() only on the success path.
WrapperBackend_norestore(verify, cand, mut) ==
    LET base == [NoBackendCall EXCEPT !.verify = verify, !.wrapped = "wrapper",
                                      !.cand = cand, !.mut = mut]
        ran == IF mut THEN "mutated" ELSE "orig"
    IN  IF cand \in {"None", "forward"} THEN [base EXCEPT !.ret = "forward"]
        ELSE IF ~verify THEN [base EXCEPT !.ret = "candidate"]
        ELSE IF cand = "raises"
            THEN [base EXCEPT !.compared = TRUE, !.exc = "Exception", !.params = ran]
        ELSE IF same(cand)
            THEN [base EXCEPT !.compared = TRUE, !.ret = "candidate",
                              !.restored = TRUE]
        ELSE [base EXCEPT !.compared = TRUE, !.exc = "RuntimeError", !.params = ran]

\* WrapperBackend.__call__: checkpoint the parameters, call the backend,
\* and when config.verify_correctness is set run the original and the
\* candidate on cloned example inputs inside try/finally: self.restore().
WrapperBackend(verify, cand, mut) ==
    LET base == [NoBackendCall EXCEPT !.verify = verify, !.wrapped = "wrapper",
                                      !.cand = cand, !.mut = mut]
    IN  IF cand \in {"None", "forward"} THEN [base EXCEPT !.ret = "forward"]
        ELSE IF ~verify THEN [base EXCEPT !.ret = "candidate"]
        ELSE IF cand = "raises"
            THEN [base EXCEPT !.compared = TRUE, !.exc = "Exception",
                              !.restored = TRUE]
        ELSE IF same(cand)
            THEN [base EXCEPT !.compared = TRUE, !.ret = "candidate",
                              !.restored = TRUE]
        ELSE [base EXCEPT !.compared = TRUE, !.exc = "RuntimeError",
                          !.restored = TRUE]

\* The backend as convert_frame_assert kept it is called for a graph.
compiler_fn(wrapped, verify, cand, mut) ==
    IF wrapped = "wrapper" THEN WrapperBackend(verify, cand, mut)
    ELSE [NoBackendCall EXCEPT !.verify = verify, !.wrapped = "raw", !.cand = cand,
                               !.mut = mut,
                               !.ret = IF cand = "None" THEN "None" ELSE "candidate"]

\* config.verify_correctness is assigned.
SetVerify ==
    /\ wb' = [wb EXCEPT !.verify = ~@]
    /\ UNCHANGED <<convVars, ctxVars, thrVars, patchVars, ex, auxVars, modVars>>

\* optimize(backend) is called: convert_frame_assert wraps the backend.
OptimizeCalled ==
    /\ wb' = [wb EXCEPT !.wrapped = wrap_compiler_fn(wb.verify)]
    /\ UNCHANGED <<convVars, ctxVars, thrVars, patchVars, ex, auxVars, modVars>>

\* The tracer calls the backend for a graph.
BackendCalled ==
    /\ wb.wrapped # "none"
    /\ calls < MaxCalls
    /\ calls' = calls + 1
    /\ \E cand \in {"None", "forward", "good", "bad", "raises"}, mut \in BOOLEAN :
        wb' = [wb EXCEPT !.last = compiler_fn(wb.wrapped, wb.verify, cand, mut)]
    /\ UNCHANGED <<cache_size_limit, input_codes, output_codes, orig_code_map,
                   cleanups, guard_failures, cache, always_optimize_code_objects,
                   last, ctxVars, thrVars, patchVars, ex, auxVars, modVars>>

(***************************************************************************)
(* Graph breaks and resume code units (tests/test_subgraphs.py).           *)
(* A traced function is a sequence of instructions: a tensor operation, a  *)
(* call the tracer cannot model (testing.unsupported), a call of a user    *)
(* function that contains such a call, a branch on a tensor value (when    *)
(* the condition c is false the next skip instructions are jumped over)    *)
(* and a return; falling off the end returns.  A frame is the original     *)
(* function (offset 1) or a resume code unit, named by its function and    *)
(* the offset it continues from.                                           *)
(*   fn           the function handed to optimize(), NoFn before that      *)
(*   traced       the frames the callback has been called for              *)
(*   entries      the frames with a cache entry (and so a guard set)       *)
(*   frags        the graphs given to the backend: [code, offset, nops]    *)
(*   frame_count, op_count   CompileCounter                                *)
(*   done         the branch outcomes fn has been called with              *)
(*   compiled, reused   graphs compiled and entries reused by the last call*)
(***************************************************************************)
NoFn == [name |-> "", n |-> 0]

Fn(name) == [name |-> name, n |-> 0]

TensorOp == [k |-> "op", c |-> 0, skip |-> 0, callee |-> NoFn]

UnsupportedCall == [k |-> "unsupported", c |-> 0, skip |-> 0, callee |-> NoFn]

UserCall(g) == [k |-> "call", c |-> 0, skip |-> 0, callee |-> g]

TensorIf(c, skip) == [k |-> "if", c |-> c, skip |-> skip, callee |-> NoFn]

Return == [k |-> "return", c |-> 0, skip |-> 0, callee |-> NoFn]

RECURSIVE resume_paths_join(_)
\* test_resume_paths_join with n if-blocks:
\* x = x + 1; (if c_i: x = x + ..; x = x + ..) for i = 1..n
resume_paths_join(n) ==
    IF n = 0 THEN <<TensorOp>>
    ELSE resume_paths_join(n - 1) \o <<TensorIf(n, 1), TensorOp, TensorOp>>

Instructions(f) ==
    CASE f.name = "test_capi_call1" ->
            <<TensorOp, TensorOp, UnsupportedCall>>
      [] f.name = "test_capi_call2" ->
            <<TensorOp, TensorOp, UnsupportedCall, TensorOp, TensorOp>>
      [] f.name = "test_resume1" ->
            <<TensorOp, TensorOp, TensorOp, UnsupportedCall,
              TensorOp, TensorOp, TensorOp>>
      [] f.name = "unsupported_first" ->
            <<UnsupportedCall, TensorOp>>
      [] f.name = "test_indirect_unsupported1" ->
            <<TensorOp, TensorOp, UserCall(Fn("indirectly_unsupported"))>>
      [] f.name = "indirectly_unsupported" ->
            <<TensorOp, UnsupportedCall>>
      [] f.name = "test_control_flow1" ->
            <<TensorOp, TensorOp, TensorOp, TensorOp, TensorOp,
              TensorIf(1, 1), Return, Return>>
      [] f.name = "test_resume_paths_join" -> resume_paths_join(f.n)
      [] OTHER -> <<>>

DirectFns == {Fn(name) : name \in {"test_capi_call1", "test_capi_call2",
                                   "test_resume1", "unsupported_first"}}

JoinFns == {[name |-> "test_resume_paths_join", n |-> n] : n \in 1..MaxIfs}

\* The branch outcomes one call of f can be made with.
Outcomes(f) ==
    [1..Cardinality({i \in 1..Len(Instructions(f)) : Instructions(f)[i].k = "if"})
        -> BOOLEAN]

minimum_call_count == 1

\* A graph is given to the backend whatever its number of operations.
creates_graph_always(nops) == nops >= 0

\* A graph is given to the backend when it has enough operations.
creates_graph(nops) == nops >= minimum_call_count

RECURSIVE TraceFrom(_, _, _)
\* The tracer runs over the instructions ins from pc with nops operations
\* in the graph, up to the instruction that ends the trace.
TraceFrom(ins, pc, nops) ==
    IF pc > Len(ins) THEN [nops |-> nops, pc |-> pc, k |-> "return"]
    ELSE IF ins[pc].k = "op" THEN TraceFrom(ins, pc + 1, nops + 1)
    ELSE [nops |-> nops, pc |-> pc, k |-> ins[pc].k]

\* One code unit for every frame that made a resume at off.
CodeUnit_percaller(f, off, pred) == <<f, off, pred>>

\* The code unit that continues f at off, made while the frame that started
\* at pred was converted: resume code is generated from the original code
\* of that frame, so every frame that breaks at the same place calls the
\* same unit.
CodeUnit(f, off, pred) == <<f, off>>

\* The callback traces the frame again although it was converted before.
ConvertFrame_retrace(st, f, off, pred, t) ==
    LET unit == CodeUnit(f, off, pred)
    IN  [st EXCEPT
            !.traced = @ \cup {unit},
            !.entries = IF creates_graph(t.nops) \/ t.k # "return"
                        THEN @ \cup {unit} ELSE @,
            !.frags = IF creates_graph(t.nops)
                      THEN @ \cup {[code |-> f, offset |-> off, nops |-> t.nops]}
                      ELSE @,
            !.frame_count = @ + (IF creates_graph(t.nops) THEN 1 ELSE 0),
            !.op_count = @ + (IF creates_graph(t.nops) THEN t.nops ELSE 0),
            !.compiled = @ + (IF creates_graph(t.nops) THEN 1 ELSE 0)]

\* The callback on the frame of f that starts at off, whose trace is t: a
\* frame seen before runs what was made of it; a new one is traced, its
\* graph compiled, and it gets an entry unless the tracer gave up with
\* SkipFrame (nothing to compile and no graph break).
ConvertFrame(st, f, off, pred, t) ==
    LET unit == CodeUnit(f, off, pred)
    IN  IF unit \in st.traced
        THEN [st EXCEPT !.reused = @ + (IF unit \in st.entries THEN 1 ELSE 0)]
        ELSE [st EXCEPT
                !.traced = @ \cup {unit},
                !.entries = IF creates_graph(t.nops) \/ t.k # "return"
                            THEN @ \cup {unit} ELSE @,
                !.frags = IF creates_graph(t.nops)
                          THEN @ \cup {[code |-> f, offset |-> off, nops |-> t.nops]}
                          ELSE @,
                !.frame_count = @ + (IF creates_graph(t.nops) THEN 1 ELSE 0),
                !.op_count = @ + (IF creates_graph(t.nops) THEN t.nops ELSE 0),
                !.compiled = @ + (IF creates_graph(t.nops) THEN 1 ELSE 0)]

RECURSIVE RunFrame(_, _, _, _, _)
\* The frame (f, off) runs with branch outcomes inp: the callback, then the
\* code up to the end of its trace, then what the break calls: the
\* unsupported call and the resume code unit after it, the user function
\* as a frame of its own, or the resume code unit of the branch taken.
RunFrame(st, f, off, inp, pred) ==
    LET ins == Instructions(f)
        t == TraceFrom(ins, off, 0)
        st1 == ConvertFrame(st, f, off, pred, t)
    IN  CASE t.k = "return" -> st1
          [] t.k = "unsupported" -> RunFrame(st1, f, t.pc + 1, inp, off)
          [] t.k = "call" ->
                RunFrame(RunFrame(st1, ins[t.pc].callee, 1, inp, 0),
                         f, t.pc + 1, inp, off)
          [] t.k = "if" ->
                RunFrame(st1, f,
                         IF inp[ins[t.pc].c] THEN t.pc + 1
                                             ELSE t.pc + 1 + ins[t.pc].skip,
                         inp, off)

NoFrags ==
    [fn |-> NoFn, traced |-> {}, entries |-> {}, frags |-> {},
     frame_count |-> 0, op_count |-> 0, done |-> {},
     compiled |-> 0, reused |-> 0]

\* torchdynamo.reset(); with torchdynamo.optimize(cnt): ...
FragStart ==
    /\ fr.fn = NoFn
    /\ \E f \in DirectFns \cup JoinFns
                \cup {Fn("test_indirect_unsupported1"), Fn("test_control_flow1")} :
          fr' = [fr EXCEPT !.fn = f]
    /\ UNCHANGED <<convVars, ctxVars, thrVars, patchVars, extVars,
                   dynamic_shapes, sizes, scan, modVars>>

\* fn is called inside the with block.
FragCall ==
    /\ fr.fn # NoFn
    /\ \E inp \in Outcomes(fr.fn) :
        \E st \in { RunFrame([fr EXCEPT !.compiled = 0, !.reused = 0],
                             fr.fn, 1, inp, 0) } :
            fr' = [st EXCEPT !.done = @ \cup {inp}]
    /\ UNCHANGED <<convVars, ctxVars, thrVars, patchVars, extVars,
                   dynamic_shapes, sizes, scan, modVars>>

(***************************************************************************)
(* has_tensor_in_frame on arbitrary object graphs: two objects that are    *)
(* each a list, a dict, a namedtuple, an object with a __dict__, an        *)
(* allowed object or an object of another type, with up to two elements    *)
(* (values, fields, attributes) among themselves, a Tensor and a str; the  *)
(* locals are one or two of the two objects.                               *)
(***************************************************************************)
ScanObjs == {"a", "b", "tensor", "str"}

ScanNodes ==
    [kind : {"List", "Dict", "NamedTuple", "Obj", "Allowed", "Other"},
     kids : {<<>>} \cup {<<x>> : x \in ScanObjs}
                  \cup {<<x, y>> : x, y \in ScanObjs}]

ScanHeap(a, b) ==
    [o \in ScanObjs |->
        CASE o = "a" -> a
          [] o = "b" -> b
          [] o = "tensor" -> [kind |-> "Tensor", kids |-> <<>>]
          [] OTHER -> [kind |-> "Prim", kids |-> <<>>]]

ScanRoots == {<<x>> : x \in {"a", "b"}} \cup {<<x, y>> : x, y \in {"a", "b"}}

NoScan == [pc |-> "idle", heap |-> ScanHeap([kind |-> "Other", kids |-> <<>>],
                                            [kind |-> "Other", kids |-> <<>>]),
           roots |-> <<>>, res |-> FALSE]

\* A frame whose locals point into some object graph reaches the scan.
ScanStart ==
    /\ scan.pc = "idle"
    /\ \E a \in ScanNodes, b \in ScanNodes, roots \in ScanRoots :
          scan' = [pc |-> "ready", heap |-> ScanHeap(a, b), roots |-> roots,
                   res |-> FALSE]
    /\ UNCHANGED <<convVars, ctxVars, thrVars, patchVars, extVars, fr,
                   dynamic_shapes, sizes, modVars>>

\* seen_ids = dict(); for value in frame.f_locals.values(): ...
ScanRun ==
    /\ scan.pc = "ready"
    /\ scan' = [scan EXCEPT !.pc = "done",
                            !.res = ScanLocals(scan.heap, scan.roots, 1, EmptyMemo)]
    /\ UNCHANGED <<convVars, ctxVars, thrVars, patchVars, extVars, fr,
                   dynamic_shapes, sizes, modVars>>

(***************************************************************************)
(* _TorchDynamoContext.__call__: a function is wrapped by a context        *)
(* object.  deco is the context and the code object of the last function   *)
(* wrapped, and the code objects of the functions wrapped so far by an     *)
(* OptimizeContext.                                                        *)
(***************************************************************************)
NoDeco == [ctx |-> 0, code |-> 0, optimized |-> {}]

\* Every wrapped function is registered.
prevents_skipping_any(cb) == cb = cb

\* if callback not in (None, False)
prevents_skipping(cb) == cb \notin {"None", "False"}

\* ctx(fn), as a decorator or called directly.
__call__(c, code) ==
    /\ always_optimize_code_objects' =
          IF prevents_skipping(CtxTable[c].callback)
              THEN always_optimize_code_objects \cup {code}
              ELSE always_optimize_code_objects
    /\ deco' = [ctx |-> c, code |-> code,
                optimized |-> IF CtxTable[c].cls = "OptimizeContext"
                                  THEN deco.optimized \cup {code}
                                  ELSE deco.optimized]

Wrap ==
    /\ \E c \in Contexts, code \in {1, 2, 4} : __call__(c, code)
    /\ UNCHANGED <<cache_size_limit, input_codes, output_codes, orig_code_map,
                   cleanups, guard_failures, cache, last, calls, ctxVars, thrVars,
                   patchVars, extVars, auxVars, wcc, shared, trk, att, cg>>

\* A function that may have been wrapped is called under optimize().
WrappedCall ==
    /\ CallWith([code : {1, 2, 3, 4}, locals : LocalsChoices \cup {<<11, 2>>},
                 x : {0}, f_lasti : {-1}],
                {AnyScript}, {env \in Settings : env.dbg = ""})
    /\ UNCHANGED <<auxVars, modVars>>

(***************************************************************************)
(* wrap_convert_context: the conversion callback runs between a save and   *)
(* a restore of torch's global state.  wcc holds                           *)
(*   g       the grad mode, the RNG state and                              *)
(*           torch.fx.graph_module._forward_from_src                       *)
(*   stack   the values saved by the conversions in progress, innermost    *)
(*           last                                                          *)
(*   exited  whether the last step was the exit of a conversion, seen  the *)
(*           values it had saved, how  the way it ended, dirty  whether    *)
(*           the globals differed from them when it ended                  *)
(***************************************************************************)
Globals(grad, rng, fwd) == [grad |-> grad, rng |-> rng, fwd |-> fwd]

NoWcc ==
    [pc |-> "idle", g |-> Globals(TRUE, 0, "_forward_from_src"), stack |-> <<>>,
     exited |-> FALSE, seen |-> Globals(TRUE, 0, "_forward_from_src"),
     how |-> "", dirty |-> FALSE]

\* prior_grad_mode = torch.is_grad_enabled(); rng_state = ...;
\* prior_fwd_from_src = ...; _forward_from_src = fx_forward_from_src_skip_result
wcc_enter(w) ==
    [w EXCEPT !.stack = Append(@, w.g),
              !.g = [w.g EXCEPT !.fwd = "fx_forward_from_src_skip_result"],
              !.exited = FALSE]

\* A restore that is skipped when fn raises.
wcc_finally_onreturn(g, saved, how) == IF how = "return" THEN saved ELSE g

\* finally: the three globals are set back to the saved values.
wcc_finally(g, saved, how) == saved

wcc_exit(w, how) ==
    LET saved == w.stack[Len(w.stack)]
    IN  [w EXCEPT !.g = wcc_finally(w.g, saved, how),
                  !.stack = SubSeq(@, 1, Len(@) - 1),
                  !.exited = TRUE, !.seen = saved, !.how = how,
                  !.dirty = (w.g.grad # saved.grad /\ w.g.rng # saved.rng
                                /\ w.g.fwd # saved.fwd)]

WccRest ==
    <<convVars, ctxVars, thrVars, patchVars, extVars, auxVars,
      deco, shared, trk, att, cg>>

\* The program's state before a conversion.
WccStart ==
    /\ wcc.pc = "idle"
    /\ \E grad \in BOOLEAN, rng \in 0..1 :
          wcc' = [wcc EXCEPT !.pc = "run",
                             !.g = Globals(grad, rng, "_forward_from_src")]
    /\ UNCHANGED WccRest

\* A frame is handed to the wrapped callback; inside a conversion this is
\* a nested one.
WccEnter ==
    /\ wcc.pc = "run"
    /\ Len(wcc.stack) < MaxDepth
    /\ wcc' = wcc_enter(wcc)
    /\ UNCHANGED WccRest

\* fn(frame, cache_size) changes the grad mode, draws random numbers or
\* replaces _forward_from_src.
WccBody ==
    /\ wcc.pc = "run"
    /\ Len(wcc.stack) > 0
    /\ \E g \in { [wcc.g EXCEPT !.grad = ~@], [wcc.g EXCEPT !.rng = 1 - @],
                   [wcc.g EXCEPT !.fwd = "other"] } :
          wcc' = [wcc EXCEPT !.g = g, !.exited = FALSE]
    /\ UNCHANGED WccRest

\* fn returns or raises.
WccExit ==
    /\ wcc.pc = "run"
    /\ Len(wcc.stack) > 0
    /\ \E how \in {"return", "raise"} : wcc' = wcc_exit(wcc, how)
    /\ UNCHANGED WccRest


(***************************************************************************)
(* One context object used by several threads in with blocks.  The         *)
(* callback that set_eval_frame installs is the calling thread's; prior    *)
(* and backend_ctx are attributes of the object.  shared holds             *)
(*   ctx          the context object                                       *)
(*   prior        self.prior                                               *)
(*   backend_ctx  self.backend_ctx: the thread whose __enter__ made it,    *)
(*                0 if none                                                *)
(*   cb           each thread's callback                                   *)
(*   inside       the threads inside their with block                      *)
(*   before       each thread's callback before it entered                 *)
(*   log          the last __exit__: the thread, the callback it left,     *)
(*                whether it raised, the backend context it exited         *)
(***************************************************************************)
NoSharedExit == [t |-> 0, after |-> "", raised |-> FALSE, exited |-> 0]

NoShared ==
    [pc |-> "idle", ctx |-> 0, prior |-> unset, backend_ctx |-> 0,
     cb |-> [t \in Threads |-> "None"], inside |-> {},
     before |-> [t \in Threads |-> "None"], log |-> NoSharedExit]

SharedRest ==
    <<convVars, ctxVars, thrVars, patchVars, extVars, auxVars,
      deco, wcc, trk, att, cg>>

\* ctx = optimize(backend), run() or disable(); each thread has some
\* callback installed.
SharedStart ==
    /\ shared.pc = "idle"
    /\ \E c \in Contexts, cb \in [Threads -> {"None", "False", "other"}] :
          shared' = [shared EXCEPT !.pc = "run", !.ctx = c, !.cb = cb]
    /\ UNCHANGED SharedRest

\* Thread t: ctx.__enter__()
SharedEnter(t) ==
    /\ shared.pc = "run"
    /\ t \notin shared.inside
    /\ \E r \in set_eval_frame(shared.cb[t], CtxTable[shared.ctx].callback) :
          shared' = [shared EXCEPT !.prior = r.ret,
                                   !.cb[t] = r.callback,
                                   !.backend_ctx = t,
                                   !.inside = @ \cup {t},
                                   !.before[t] = shared.cb[t],
                                   !.log = NoSharedExit]
    /\ UNCHANGED SharedRest

\* Thread t: ctx.__exit__(...)
SharedExit(t) ==
    /\ shared.pc = "run"
    /\ t \in shared.inside
    /\ \E r \in set_eval_frame(shared.cb[t], shared.prior) :
          shared' =
            IF r.raised
                THEN [shared EXCEPT !.inside = @ \ {t},
                                    !.log = [t |-> t, after |-> r.callback,
                                             raised |-> TRUE, exited |-> 0]]
                ELSE [shared EXCEPT !.cb[t] = r.callback,
                                    !.prior = unset,
                                    !.inside = @ \ {t},
                                    !.log = [t |-> t, after |-> r.callback,
                                             raised |-> FALSE,
                                             exited |-> shared.backend_ctx]]
    /\ UNCHANGED SharedRest


(***************************************************************************)
(* A Tracker with its list of weak references.  Objects are numbered in    *)
(* the order they are made; id(o) is the address of o, which a later       *)
(* object can take once o is dead.  trk holds                              *)
(*   made      how many objects were made                                  *)
(*   alive     the objects alive                                           *)
(*   id        the address of each object made                             *)
(*   seen      self.seen: for each weak reference its referent and the idx *)
(*             its callback removes                                        *)
(*   seen_ids  self.seen_ids                                               *)
(*   added     the objects added since the last clear                      *)
(*   again     the last add was of an object already in the tracker        *)
(*   grew      the last add appended a weak reference                      *)
(*   keyerror  a removal callback raised KeyError                          *)
(***************************************************************************)
NumObjs == 3

NumIds == 2

NoTrk ==
    [made |-> 0, alive |-> {}, id |-> <<>>, seen |-> <<>>, seen_ids |-> {},
     added |-> {}, again |-> FALSE, grew |-> FALSE, keyerror |-> FALSE]

\* Tracker.__contains__
Tracker_contains(t, item) == t.id[item] \in t.seen_ids

\* Tracker.add
Tracker_add(t, strong_obj) ==
    LET idx == t.id[strong_obj]
    IN  IF idx \notin t.seen_ids
            THEN [t EXCEPT !.seen = Append(@, [obj |-> strong_obj, idx |-> idx]),
                           !.seen_ids = @ \cup {idx}]
            ELSE t

\* A clear that keeps the weak references.
Tracker_clear_idsonly(t) == [t EXCEPT !.seen_ids = {}]

\* Tracker.clear: the weak references are dropped with the list, so their
\* callbacks never run.
Tracker_clear(t) == [t EXCEPT !.seen = <<>>, !.seen_ids = {}]

\* The callbacks of the weak references to obj that the list still holds,
\* run when obj dies: lambda _: self.seen_ids.remove(idx)
Tracker_callbacks(t, obj) ==
    LET refs == { k \in DOMAIN t.seen : t.seen[k].obj = obj }
        idxs == { t.seen[k].idx : k \in refs }
    IN  [t EXCEPT !.seen_ids = @ \ idxs,
                  !.keyerror = \/ @
                               \/ \E k \in refs : t.seen[k].idx \notin t.seen_ids
                               \/ Cardinality(refs) > Cardinality(idxs)]

TrkRest ==
    <<convVars, ctxVars, thrVars, patchVars, extVars, auxVars,
      deco, wcc, shared, att, cg>>

\* A code object is made, at an address no live object has.
TrkNew ==
    /\ trk.made < NumObjs
    /\ \E a \in 1..NumIds :
        /\ \A o \in trk.alive : trk.id[o] # a
        /\ trk' = [trk EXCEPT !.made = @ + 1, !.alive = @ \cup {trk.made + 1},
                               !.id = Append(@, a)]
    /\ UNCHANGED TrkRest

\* tracker.add(o)
TrkAdd ==
    /\ \E o \in trk.alive :
        \E t \in { Tracker_add(trk, o) } :
          trk' = [t EXCEPT !.added = @ \cup {o},
                           !.again = Tracker_contains(trk, o),
                           !.grew = Len(t.seen) > Len(trk.seen)]
    /\ UNCHANGED TrkRest

\* tracker.clear()
TrkClear ==
    /\ trk.made > 0
    /\ trk' = [Tracker_clear(trk) EXCEPT !.added = {}, !.again = FALSE,
                                          !.grew = FALSE]
    /\ UNCHANGED TrkRest

\* The last reference to o goes away.
TrkDie ==
    /\ \E o \in trk.alive :
          trk' = [Tracker_callbacks(trk, o) EXCEPT !.alive = @ \ {o},
                                                   !.again = FALSE, !.grew = FALSE]
    /\ UNCHANGED TrkRest


(***************************************************************************)
(* The attempts of one conversion, statement by statement                  *)
(* (_convert_frame_assert, lines 288-350).  att holds                      *)
(*   frame      the code object of the frame, one_graph, export            *)
(*   attempt    the loop counter                                           *)
(*   tracer     the InstructionTranslator of the last attempt: the attempt *)
(*              that made it and the attempts whose guards and cleanups    *)
(*              its output holds                                           *)
(*   output     the nonlocal output, NoOutput while unset                  *)
(*   code       the attempt whose instructions were assembled, -1 if none  *)
(*   restarted  the attempts that ended in RestartAnalysis                 *)
(*   entry      the GuardedCode returned and the cleanups registered       *)
(***************************************************************************)
MaxAttempts == 3

NoOutput == [made |-> -1, guards |-> {}, cleanups |-> {}]

NoAtt ==
    [pc |-> "idle", frame |-> 0, one_graph |-> FALSE, export |-> FALSE,
     attempt |-> 0, tracer |-> NoOutput, output |-> NoOutput, code |-> -1,
     restarted |-> {}, entry |-> [code |-> -1, guards |-> {}, cleanups |-> {}],
     exc |-> ""]

\* tracer.run(): the output of the tracer gathers the guards and the
\* cleanups of this attempt.
tracer_run(tracer, attempt) ==
    [tracer EXCEPT !.guards = @ \cup {attempt}, !.cleanups = @ \cup {attempt}]

\* A transform that keeps the tracer of the first attempt.
transform_sametracer(a, ev) ==
    LET tracer == tracer_run(IF a.tracer = NoOutput
                                 THEN [made |-> a.attempt, guards |-> {},
                                       cleanups |-> {}]
                                 ELSE a.tracer, a.attempt)
    IN  IF ev = "Completed"
            THEN [a EXCEPT !.tracer = tracer, !.output = tracer,
                           !.code = tracer.made]
            ELSE [a EXCEPT !.tracer = tracer]

\* transform(instructions, code_options): a new InstructionTranslator is
\* run; only when run() completes is its output bound to the nonlocal
\* output and are the instructions replaced by the output's, from which
\* transform_code_object assembles the code object.
transform(a, ev) ==
    LET tracer == tracer_run([made |-> a.attempt, guards |-> {}, cleanups |-> {}],
                             a.attempt)
    IN  IF ev = "Completed"
            THEN [a EXCEPT !.tracer = tracer, !.output = tracer,
                           !.code = tracer.made]
            ELSE [a EXCEPT !.tracer = tracer]

AttRest ==
    <<convVars, ctxVars, thrVars, patchVars, extVars, auxVars,
      deco, wcc, shared, trk, cg>>

\* A frame reaches the try block of _convert_frame_assert.
AttStart ==
    /\ att.pc = "idle"
    /\ \E frame \in {1, 2, 3, 4}, og \in BOOLEAN, exp \in BOOLEAN :
          att' = [att EXCEPT !.pc = "loop", !.frame = frame,
                             !.one_graph = og, !.export = exp]
    /\ UNCHANGED AttRest

\* One pass of 'for attempt in itertools.count()'.
AttAttempt ==
    /\ att.pc = "loop"
    /\ \E ev \in {"Completed", "RestartAnalysis", "SkipFrame", "Unsupported"} :
          LET a == transform(att, ev)
          IN  att' =
                IF ev = "Completed" THEN [a EXCEPT !.pc = "built"]
                ELSE IF ev = "RestartAnalysis"
                    THEN IF a.attempt >= MaxAttempts
                            THEN [a EXCEPT !.pc = "raised", !.exc = "Unsupported",
                                           !.restarted = @ \cup {a.attempt}]
                            ELSE [a EXCEPT !.attempt = @ + 1,
                                           !.restarted = @ \cup {a.attempt}]
                ELSE IF ev = "SkipFrame" THEN [a EXCEPT !.pc = "skipped"]
                ELSE [a EXCEPT !.pc = "raised", !.exc = ev]
    /\ UNCHANGED AttRest

\* Lines 327-350: after the loop.
AttReturn ==
    /\ att.pc = "built"
    /\ \E guards_none \in BOOLEAN :
          att' = IF guards_none
                    \* assert output.guards is not None
                    THEN [att EXCEPT !.pc = "raised", !.exc = "AssertionError"]
                    ELSE [att EXCEPT !.pc = "returned",
                                     !.entry = [code |-> att.code,
                                                guards |-> att.output.guards,
                                                cleanups |-> att.output.cleanups]]
    /\ UNCHANGED AttRest


(***************************************************************************)
(* optimizations/training.py: CudaGraphModule.  cg holds                   *)
(*   nargs     the number of arguments the module is called with           *)
(*   mutated_inputs   the argument positions copied back                   *)
(*   warmed_up, graph, static_inputs, static_outputs   the attributes:     *)
(*             whether graph and static_outputs are set, the length of     *)
(*             static_inputs, 0 while it is None                           *)
(*   n         the calls made                                              *)
(*   gm_calls  how often the wrapped module was invoked, gm_warm  how      *)
(*             often since warmed_up was set                               *)
(*   failed    whether a warm-up call raised                               *)
(*   last      the last call: the branch taken, the phase before it,       *)
(*             whether it invoked the module, whether it raised, whether   *)
(*             static_outputs was set when it was read, the inputs copied  *)
(*             back                                                        *)
(***************************************************************************)
MaxCgCalls == 4

NoCgCall ==
    [path |-> "", pre |-> 0, gm |-> FALSE, raised |-> FALSE, outputs |-> TRUE,
     copied |-> {}]

NoCg ==
    [pc |-> "idle", nargs |-> 0, mutated_inputs |-> {}, warmed_up |-> FALSE,
     graph |-> FALSE, static_inputs |-> 0, static_outputs |-> FALSE, n |-> 0, gm_calls |-> 0,
     gm_warm |-> 0, failed |-> FALSE, last |-> NoCgCall]

\* 0 before warm-up, 1 warmed up, 2 once the graph attribute is set.
CgPhase(c) == IF c.graph THEN 2 ELSE IF c.warmed_up THEN 1 ELSE 0

\* The module is invoked.
gm_call(c) ==
    [c EXCEPT !.gm_calls = @ + 1,
              !.gm_warm = IF c.warmed_up THEN @ + 1 ELSE @]

\* A replay that runs the wrapped module again.
cg_replay_eager(c) ==
    [gm_call(c) EXCEPT !.last = [path |-> "replay", pre |-> CgPhase(c), gm |-> TRUE,
                                 raised |-> FALSE,
                                 outputs |-> c.static_outputs,
                                 copied |-> c.mutated_inputs]]

\* if self.graph is not None: copy the arguments in, replay, copy the
\* mutated inputs back, return the clones of static_outputs.
cg_replay(c) ==
    [c EXCEPT !.last = [path |-> "replay", pre |-> CgPhase(c), gm |-> FALSE,
                        raised |-> FALSE, outputs |-> c.static_outputs,
                        copied |-> c.mutated_inputs]]

\* elif self.warmed_up: static_inputs and graph are set, then the module
\* runs under torch.cuda.graph(self.graph); when it raises, the exception
\* leaves __call__ with static_outputs unset.
cg_record(c, raises) ==
    LET c1 == [gm_call(c) EXCEPT !.static_inputs = c.nargs, !.graph = TRUE]
    IN  IF raises
            THEN [c1 EXCEPT !.last = [path |-> "record", pre |-> CgPhase(c),
                                      gm |-> TRUE, raised |-> TRUE,
                                      outputs |-> TRUE, copied |-> {}]]
            ELSE [c1 EXCEPT !.static_outputs = TRUE,
                            !.last = [path |-> "record", pre |-> CgPhase(c),
                                      gm |-> TRUE, raised |-> FALSE,
                                      outputs |-> TRUE,
                                      copied |-> c.mutated_inputs]]

\* else: the module runs on a side stream; warmed_up is set when it has
\* returned.
cg_warmup(c, raises) ==
    [gm_call(c) EXCEPT !.warmed_up = ~raises,
                       !.failed = @ \/ raises,
                       !.last = [path |-> "warmup", pre |-> CgPhase(c), gm |-> TRUE,
                                 raised |-> raises, outputs |-> TRUE,
                                 copied |-> {}]]

\* CudaGraphModule.__call__
cg_call(c, raises) ==
    IF c.graph THEN cg_replay(c)
    ELSE IF c.warmed_up THEN cg_record(c, raises)
    ELSE cg_warmup(c, raises)

CgRest ==
    <<convVars, ctxVars, thrVars, patchVars, extVars, auxVars,
      deco, wcc, shared, trk, att>>

\* CudaGraphModule(gm, mutated_inputs)
CgStart ==
    /\ cg.pc = "idle"
    /\ \E nargs \in 1..2 : \E mi \in SUBSET (0..(nargs - 1)) :
          cg' = [cg EXCEPT !.pc = "made", !.nargs = nargs, !.mutated_inputs = mi]
    /\ UNCHANGED CgRest

\* The module is called; the wrapped module, when it runs, returns or raises.
CgCall ==
    /\ cg.pc = "made"
    /\ cg.n < MaxCgCalls
    /\ \E raises \in BOOLEAN :
          cg' = [cg_call(cg, raises) EXCEPT !.n = @ + 1]
    /\ UNCHANGED CgRest


CtxInit ==
    /\ callback = "None"
    /\ ctxs = [c \in Contexts |-> [prior |-> unset]]
    /\ stack = <<>>
    /\ ctxlog = NoScopeOp
    /\ bctx = NoBackendOp

Init ==
    /\ cache_size_limit \in 0..MaxLimit
    /\ input_codes = EmptyTracker
    /\ output_codes = EmptyTracker
    /\ orig_code_map = <<>>
    /\ cleanups = {}
    /\ guard_failures = <<>>
    /\ cache = [c \in Addrs |-> <<>>]
    /\ always_optimize_code_objects = {3}
    /\ last = NoCall
    /\ calls = 0
    /\ CtxInit
    /\ ThrInit
    /\ PatchInit
    /\ ex = NoExport
    /\ wb = [verify |-> FALSE, wrapped |-> "none", last |-> NoBackendCall]
    /\ fr = NoFrags
    /\ dynamic_shapes = FALSE
    /\ sizes = {}
    /\ scan = NoScan
    /\ deco = NoDeco
    /\ wcc = NoWcc
    /\ shared = NoShared
    /\ trk = NoTrk
    /\ att = NoAtt
    /\ cg = NoCg

Next == Call \/ FrameReturn \/ ResetCode \/ Reset

Spec == Init /\ [][Next]_vars

NextTrace == TraceCall \/ FrameReturn \/ ResetCode \/ Reset

SpecTrace == Init /\ [][NextTrace]_vars

\* Threads whose calls are intercepted concurrently.
NextThreads ==
    \E t \in Threads :
        ThCall(t) \/ ThNestedCall(t) \/ ThAcquire(t) \/ ThConvert(t) \/ ThResetCode(t)

SpecThreads == Init /\ [][NextThreads]_vars

\* Threads that construct optimize contexts concurrently.
NextPatch == \E t \in Threads : Construct(t) \/ PatchStep(t)

SpecPatch == Init /\ [][NextPatch]_vars

\* One call of export.
NextExport == ExportStart \/ ExportFrame \/ ExportReturn

SpecExport == Init /\ [][NextExport]_vars

\* The backend's wrapping and calls under a changing verify_correctness.
NextVerify == SetVerify \/ OptimizeCalled \/ BackendCalled

SpecVerify == Init /\ [][NextVerify]_vars

\* The state after import with config.cache_size_limit at one value, for
\* the behaviours in which the limit plays no part.
InitOneLimit == Init /\ cache_size_limit = MaxLimit

\* Functions wrapped by context objects and called.
NextWrap == Wrap \/ WrappedCall \/ FrameReturn

SpecWrap == InitOneLimit /\ [][NextWrap]_vars

\* Threads whose conversions fail.
NextLock ==
    \E t \in Threads :
        ThCall(t) \/ ThNestedCall(t) \/ ThAcquire(t) \/ ThConvertAny(t)

SpecLock == InitOneLimit /\ [][NextLock]_vars

\* One context object in the with blocks of several threads.
NextShared == SharedStart \/ \E t \in Threads : SharedEnter(t) \/ SharedExit(t)

SpecShared == InitOneLimit /\ [][NextShared]_vars

\* A Tracker and the objects added to it.
NextTrk == TrkNew \/ TrkAdd \/ TrkClear \/ TrkDie

SpecTrk == InitOneLimit /\ [][NextTrk]_vars

\* A CudaGraphModule and its calls.
NextCg == CgStart \/ CgCall

SpecCg == InitOneLimit /\ [][NextCg]_vars

\* The attempts of one conversion.
NextAtt == AttStart \/ AttAttempt \/ AttReturn

SpecAtt == InitOneLimit /\ [][NextAtt]_vars

\* Conversions under wrap_convert_context.
NextWcc == WccStart \/ WccEnter \/ WccBody \/ WccExit

SpecWcc == InitOneLimit /\ [][NextWcc]_vars

\* The scan of the locals over all small object graphs.
NextScan == ScanStart \/ ScanRun

SpecScan == InitOneLimit /\ [][NextScan]_vars

\* One function called with inputs of several sizes.
NextShapes == SetDynamicShapes \/ ShapeCall \/ FrameReturn

SpecShapes == Init /\ [][NextShapes]_vars

\* Functions with graph breaks called under optimize().
NextFrag == FragStart \/ FragCall

SpecFrag == InitOneLimit /\ [][NextFrag]_vars

\* Scopes whose backend contexts never fail.
NextCtx == Enter \/ Exit \/ FnEnter \/ FnExit

SpecCtx == Init /\ [][NextCtx]_vars

\* Scopes whose backend contexts can fail.
NextCtxErr == Enter \/ EnterRaises \/ Exit \/ FnEnter \/ FnEnterRaises \/ FnExit

SpecCtxErr == Init /\ [][NextCtxErr]_vars

(***************************************************************************)
(* Properties.                                                             *)
(***************************************************************************)
\* The code object's row of the call in `last`.
LastRow == Row(cache, last.code)

CacheNeverExceedsLimit ==
    /\ (last.kind = "miss" /\ last.cache_size >= cache_size_limit)
           => last.ret # "GuardedCode"
    /\ \A c \in Addrs : Len(cache[c]) <= cache_size_limit

\* C2 witness: a call that missed a full cache was refused.
CacheNeverExceedsLimitWitness ==
    /\ last.kind = "miss"
    /\ cache_size_limit > 0
    /\ last.cache_size = cache_size_limit
    /\ Len(cache[last.code]) = cache_size_limit
    /\ last.msg = "cache_size_limit reached"

\* C3: a traceable non-generator frame presented with cache_size at or above
\* the limit always ends with Unsupported("cache_size_limit reached") after
\* the most recent guard failure reason was logged.
CacheLimitAlwaysUnsupported ==
    (/\ last.kind = "miss" /\ last.early = "" /\ last.tensor
     /\ ~LastRow.gen
     /\ last.cache_size >= cache_size_limit)
        => (/\ last.exc = "Unsupported"
            /\ last.msg = "cache_size_limit reached"
            /\ last.logged # NoReason)

\* C4: a frame that is not always-trace and has no tensor in its locals is
\* skipped with None and no exception, also when it is a generator or at the
\* cache limit.
NoTensorSkippedFirst ==
    (/\ last.kind = "miss"
     /\ ~last.tensor
     /\ last.code \notin always_optimize_code_objects
     /\ ~HasAllowedGlobal(LastRow))
        => (last.ret = "None" /\ last.exc = "")

OutputCodeNeverRetraced ==
    /\ (last.kind = "miss" /\ last.ret = "GuardedCode")
           => TrackerContains(output_codes, last.newcode)
    /\ (last.kind # "none" /\ last.code \in OutAddrs)
           => (/\ last.kind = "miss" /\ last.ret = "None" /\ last.out_ret = "None"
               /\ last.runs = 0)

\* C6 witness: a generated code object was presented and skipped as output.
OutputCodeNeverRetracedWitness ==
    /\ last.code \in OutAddrs
    /\ last.early = "output_code"
    /\ TrackerContains(output_codes, last.code)

\* C7 as stated: when every attempt raises RestartAnalysis the tracer is run
\* at most 100 times and the conversion ends with Unsupported.
RestartAtMostCeiling ==
    (last.kind = "miss" /\ last.trace = "RestartAnalysis")
        => (last.runs <= RestartCeiling /\ last.exc = "Unsupported")

\* C7 amended: no conversion runs the tracer more than 102 times, and when
\* every attempt raises RestartAnalysis it is run exactly 102 times and the
\* conversion ends with Unsupported("100+ RestartAnalysis() calls").
RestartLoopTerminates ==
    /\ last.kind = "miss" => last.runs <= RestartCeiling + 2
    /\ (last.kind = "miss" /\ last.trace = "RestartAnalysis")
           => (/\ last.runs = RestartCeiling + 2
               /\ last.exc = "Unsupported"
               /\ last.msg = "100+ RestartAnalysis() calls")

\* C7 witness: a conversion whose every attempt restarted.
RestartLoopTerminatesWitness ==
    /\ last.kind = "miss"
    /\ last.trace = "RestartAnalysis"
    /\ last.exc = "Unsupported"
    /\ last.runs > RestartCeiling

\* C8: a conversion whose tracing ends with SkipFrame returns None and leaves
\* output_codes, orig_code_map, CleanupManager.instance and the cache as
\* they were.
SkipFrameLeavesNoTrace ==
    [][(last.kind = "none" /\ last'.kind = "miss" /\ last'.trace = "SkipFrame")
          => (/\ last'.ret = "None" /\ last'.out_ret = "None"
              /\ output_codes' = output_codes
              /\ orig_code_map' = orig_code_map
              /\ cleanups' = cleanups
              /\ cache' = cache)]_vars

\* C8 witness: SkipFrame after restarts, with an earlier conversion's code
\* in output_codes.
SkipFrameLeavesNoTraceWitness ==
    /\ last.kind = "miss"
    /\ last.trace = "SkipFrame"
    /\ last.runs > 1
    /\ last.ret = "None"
    /\ output_codes.seen # {}

\* C9: whenever control leaves a scope, by the end of its body or by an
\* exception raised while the backend context is constructed or entered, the
\* callback active before the entry is active again.
ScopeExitRestoresCallback ==
    ctxlog.op \in {"exit", "enter_raised"} => ctxlog.after = ctxlog.before

\* C10: in a well-nested sequence of entries and exits each exit restores the
\* callback that was active before the matching entry, and set_eval_frame is
\* never passed `unset`.
NestedExitRestoresPrior ==
    ctxlog.op = "exit" => (ctxlog.after = ctxlog.before /\ ~ctxlog.unset_passed)

\* C11: an exception raised during a frame conversion, in classification or
\* in tracing, that is none of Unsupported, TorchRuntimeError,
\* BackendCompilerFailed and AssertionError reaches the caller as
\* InternalTorchDynamoError in both modes.
InternalErrorsSurface ==
    (last.kind = "miss" /\ last.exc \in {"InternalTorchDynamoError", "Exception"})
        => last.out_exc = "InternalTorchDynamoError"

\* A thread's callback is in progress.
InCallback(t) == th[t].pc = "converting" \/ th[t].depth = 2

\* C12: a BackendCompilerFailed raised during a conversion leaves
\* convert_frame_assert, convert_frame and catch_errors with its type
\* unchanged, and the thread does not hold compile_lock afterwards.
BackendFailurePropagates ==
    \A t \in Threads :
        (th[t].pc = "idle" /\ th[t].trace = "BackendCompilerFailed")
            => (/\ th[t].exc = "BackendCompilerFailed"
                /\ th[t].out_exc = "BackendCompilerFailed"
                /\ th[t].ret = ""
                /\ compile_lock # t)

\* C12 witness: the failure crossed convert_frame and the lock is free.
BackendFailurePropagatesWitness ==
    \E t \in Threads :
        /\ th[t].pc = "idle"
        /\ th[t].mode = "optimize"
        /\ th[t].trace = "BackendCompilerFailed"
        /\ th[t].out_exc = "BackendCompilerFailed"
        /\ th[t].locked
        /\ compile_lock = 0

\* C13: under optimize() a conversion that meets a generator frame, the
\* cache size limit, the restart ceiling, an unsupported construct or
\* SkipFrame returns None, and nothing but a backend failure or an internal
\* error crosses the boundary.
UnsupportedFallsBack ==
    (last.kind = "miss" /\ last.mode = "optimize")
        => (/\ (\/ last.exc = "Unsupported"
                \/ last.trace = "SkipFrame"
                \/ (last.early = "" /\ LastRow.gen)
                \/ (last.early = "" /\ last.cache_size >= cache_size_limit))
                   => (last.out_ret = "None" /\ last.out_exc = "")
            /\ last.out_exc \in {"", "BackendCompilerFailed",
                                 "InternalTorchDynamoError", "AssertionError"})

\* C14: under optimize(backend, nopython=True) a frame is converted with
\* one_graph=True, so a graph break is Unsupported, and a conversion that
\* fails with Unsupported (graph break, generator, cache limit) raises it to
\* the caller; at the generator check and at the cache limit an exception
\* always reaches the caller.
NopythonRaisesUnsupported ==
    (last.kind = "miss" /\ last.mode = "nopython")
        => (/\ last.exc = "Unsupported"
                   => (last.out_exc = "Unsupported" /\ last.out_ret = "")
            /\ last.final = "GraphBreak" => last.exc = "Unsupported"
            /\ (last.early = "" /\ LastRow.gen) => last.out_exc = "Unsupported"
            /\ (last.early = "" /\ last.cache_size >= cache_size_limit)
                   => last.out_exc # "")

\* C14 witness: a graph break under nopython reached the caller as Unsupported.
NopythonRaisesUnsupportedWitness ==
    /\ last.kind = "miss"
    /\ last.mode = "nopython"
    /\ last.final = "GraphBreak"
    /\ last.out_exc = "Unsupported"

\* C15: at most one thread is inside the conversion callback, and it holds
\* compile_lock; a thread that arrived at the lock meanwhile is not inside.
OneConversionAtATime ==
    /\ Cardinality({ t \in Threads : InCallback(t) }) <= 1
    /\ \A t \in Threads : InCallback(t) => compile_lock = t

\* C15 witness: one thread converts a function while another thread that
\* missed on the same function waits at the lock.
OneConversionAtATimeWitness ==
    \E t, u \in Threads :
        /\ t # u
        /\ th[t].pc = "converting"
        /\ th[u].pc = "acquire"
        /\ th[u].frame.code = th[t].frame.code

\* C16: a callback invoked on a thread whose own conversion is in progress
\* is not stuck at the lock the thread itself holds.
ReentrantCallbackProceeds ==
    \A t \in Threads :
        ~(th[t].pc = "acquire" /\ th[t].depth = 2 /\ compile_lock = t)

\* C17: under every interleaving of threads no code object has more cache
\* entries than cache_size_limit.
ThreadsEntriesWithinLimit ==
    \A c \in OrigCodes : Len(cache[c]) <= cache_size_limit

\* C18: every write to input_codes, output_codes and orig_code_map, the
\* removal of a dead code object's id included, is made by a thread that
\* holds compile_lock.
SharedWritesUnderLock ==
    lastwrite.what # "none" => lastwrite.locked

\* C19: a frame that has started executing, a frame of a skip-listed file
\* and a '<string>' '__new__' frame get None from catch_errors without the
\* lock being acquired and without the callback being run.
SkippedFramesBypassLock ==
    \A t \in Threads :
        LET f == th[t].frame
            row == CodeTable[f.code]
        IN  (/\ th[t].kind \in {"skip", "miss"}
             /\ \/ f.f_lasti >= 0
                \/ row.co_filename = "torch/nn/modules/module.py"
                \/ (row.co_filename = "<string>" /\ row.co_name = "__new__"))
                => (/\ th[t].pc = "idle"
                    /\ th[t].ret = "None" /\ th[t].out_exc = ""
                    /\ ~th[t].locked
                    /\ ~th[t].converted)

\* C19 witness: a started frame got None while another thread held the lock.
SkippedFramesBypassLockWitness ==
    \E t, u \in Threads :
        /\ t # u
        /\ th[t].early = "f_lasti"
        /\ th[t].ret = "None"
        /\ compile_lock = u

\* C20: however many optimize contexts are constructed, on however many
\* threads, no patched function is wrapped by disable more than once.
PatchBodyRunsOnce ==
    \A i \in DOMAIN wraps : wraps[i] <= 1

\* C21: the entry installed by a compilation passes its guards for the
\* arguments it was compiled for; a call whose arguments pass the guards of an
\* entry runs that entry, the tracer and the backend are not run and the
\* cache is unchanged; and a call never makes an entry stop serving the
\* arguments it served.  So repeating a compiled call compiles nothing more.
CompiledCallReused ==
    [][/\ (last'.kind = "miss" /\ last'.out_ret = "GuardedCode")
              => Lookup(cache'[last'.code], last'.x) > 0
       /\ (calls' = calls + 1 /\ Lookup(cache[last'.code], last'.x) > 0)
              => (last'.kind = "hit" /\ last'.runs = 0 /\ cache' = cache)
       /\ calls' = calls + 1
              => \A c \in OrigCodes, x \in Inputs :
                     Lookup(cache[c], x) > 0 => Lookup(cache'[c], x) > 0]_vars

\* C21 witness: the second of two calls ran the entry the first one compiled.
CompiledCallReusedWitness ==
    /\ last.kind = "hit"
    /\ calls = 2
    /\ last.runs = 0
    /\ Len(cache[last.code]) = 1

\* C22 as stated: export returns its tuple only after exactly one graph and
\* exactly one guard export, and when there was no graph, a second graph or a
\* second guard export it fails with AssertionError.
ExportFailsWithAssertion ==
    ex.pc = "done"
        => (/\ ex.ret = "tuple" => (ex.ngraph = 1 /\ ex.nguards = 1)
            /\ (ex.ngraph = 0 \/ ex.ngraph >= 2 \/ ex.nguards >= 2)
                   => (ex.ret = "" /\ ex.exc = "AssertionError"))

\* C22 amended: export returns its tuple only after exactly one graph and
\* exactly one guard export; otherwise it returns nothing and raises:
\* AssertionError when the traced call returned or a second guard set was
\* exported, BackendCompilerFailed when a second graph reached the compiler,
\* or the exception that ended the traced call.
ExportReturnsOnlyOneGraph ==
    ex.pc = "done"
        => (/\ ex.ret = "tuple" => (ex.ngraph = 1 /\ ex.nguards = 1 /\ ex.exc = "")
            /\ (ex.ngraph # 1 \/ ex.nguards # 1) => (ex.ret = "" /\ ex.exc # "")
            /\ ex.ngraph >= 2 => ex.exc = "BackendCompilerFailed"
            /\ (ex.nguards >= 2 /\ ex.ngraph < 2) => ex.exc = "AssertionError"
            /\ ex.exc \in {"", "AssertionError", "BackendCompilerFailed",
                           "Unsupported"})

\* C22 witness: a second graph reached the capturing compiler and export
\* raised.
ExportReturnsOnlyOneGraphWitness ==
    /\ ex.pc = "done"
    /\ ex.ngraph = 2
    /\ ex.ret = ""
    /\ ex.exc = "BackendCompilerFailed"

\* C23: while export runs, the callback returns no GuardedCode to the hook,
\* so no cache entry is installed for an exported frame.
ExportInstallsNoEntry ==
    ex.installed = 0

\* C24: in the decorator form every call enters a backend context before
\* the body runs and exits it after the body, on return and on exception.
DecoratorBackendCtxBalanced ==
    bctx.form = "decorator"
        => (/\ bctx.op = "enter" => bctx.entered
            /\ bctx.op = "exit" => bctx.exited)

\* C25 as stated: when config.verify_correctness is true as the backend is
\* called for a graph, the candidate is compared with the original, is
\* returned only when the outputs match, a mismatch raises RuntimeError and
\* the parameters are restored, whatever the flag was when optimize() was
\* called.
VerifiedWheneverFlagSet ==
    (wb.last.verify /\ wb.last.cand \in {"good", "bad", "raises"})
        => (/\ wb.last.compared
            /\ wb.last.restored
            /\ wb.last.ret = "candidate" => wb.last.cand = "good"
            /\ wb.last.cand = "bad" => wb.last.exc = "RuntimeError")

\* C25 amended: the same when the flag was also true when optimize() was
\* called, so that the backend is a WrapperBackend.
VerifiedWhenWrappedAndFlagSet ==
    (wb.last.wrapped = "wrapper" /\ wb.last.verify
     /\ wb.last.cand \in {"good", "bad", "raises"})
        => (/\ wb.last.compared
            /\ wb.last.restored
            /\ wb.last.params = "orig"
            /\ wb.last.ret = "candidate" => wb.last.cand = "good"
            /\ wb.last.cand = "bad" => (wb.last.exc = "RuntimeError" /\ wb.last.ret = ""))

\* C25 witness: a mismatching candidate that writes to the parameters was
\* rejected with RuntimeError and the parameters were restored.
VerifiedWhenWrappedAndFlagSetWitness ==
    /\ wb.last.wrapped = "wrapper"
    /\ wb.last.verify
    /\ wb.last.cand = "bad"
    /\ wb.last.mut
    /\ wb.last.exc = "RuntimeError"
    /\ wb.last.restored

\* The operations of a function with one unsupported call and no other
\* break, before and after that call.
UnsupportedAt(f) ==
    CHOOSE i \in 1..Len(Instructions(f)) : Instructions(f)[i].k = "unsupported"

OpsBefore(f) == UnsupportedAt(f) - 1

OpsAfter(f) == Len(Instructions(f)) - UnsupportedAt(f)

\* C26 as stated: a function with exactly one unsupported call, once called,
\* has exactly two graph fragments, the code before the call and the code
\* after it.
OneUnsupportedTwoFragments ==
    (fr.fn \in DirectFns /\ fr.done # {})
        => (/\ fr.frame_count = 2
            /\ Cardinality(fr.frags) = 2)

\* C26 amended: there is one fragment for the operations before the
\* unsupported call and one for the operations after it, each only when it
\* has an operation, every fragment is a frame with a cache entry of its
\* own, and with the unsupported call inside a user function the caller's
\* graph ends at the call of that function while the function, a frame of
\* its own, splits at the unsupported call.
OneUnsupportedSplitsOps ==
    /\ (fr.fn \in DirectFns /\ fr.done # {})
        => (/\ fr.frags =
                  {[code |-> fr.fn, offset |-> 1, nops |-> OpsBefore(fr.fn)]
                      : x \in {y \in {0} : OpsBefore(fr.fn) > 0}}
                  \cup
                  {[code |-> fr.fn, offset |-> UnsupportedAt(fr.fn) + 1,
                    nops |-> OpsAfter(fr.fn)]
                      : x \in {y \in {0} : OpsAfter(fr.fn) > 0}}
            /\ fr.frame_count = Cardinality(fr.frags)
            /\ fr.op_count = OpsBefore(fr.fn) + OpsAfter(fr.fn)
            /\ \A g \in fr.frags : <<g.code, g.offset>> \in fr.entries)
    /\ (fr.fn = Fn("test_indirect_unsupported1") /\ fr.done # {})
        => (/\ fr.frags =
                  {[code |-> fr.fn, offset |-> 1, nops |-> 2],
                   [code |-> Fn("indirectly_unsupported"), offset |-> 1,
                    nops |-> 1]}
            /\ fr.frame_count = 2
            /\ fr.op_count = 3
            /\ \A g \in fr.frags : <<g.code, g.offset>> \in fr.entries)

\* C26 witness: test_capi_call1, whose unsupported call is the last thing it
\* does, has been called and has the single fragment of its two operations.
OneUnsupportedSplitsOpsWitness ==
    /\ fr.fn = Fn("test_capi_call1")
    /\ fr.done # {}
    /\ fr.frame_count = 1
    /\ fr.op_count = 2

\* The instructions where the branches of f rejoin, and the fragments whose
\* graph holds the instruction at pc.
JoinPoints(f) ==
    {i + 1 + Instructions(f)[i].skip :
        i \in {j \in 1..Len(Instructions(f)) : Instructions(f)[j].k = "if"}}

FragsCovering(pc) ==
    {g \in fr.frags :
        g.offset <= pc /\ pc < TraceFrom(Instructions(g.code), g.offset, 0).pc}

\* C27 as stated: once the function with n if-blocks has been called with
\* all 2^n combinations of branch outcomes it has 2n + 1 fragments and the
\* code after each join point is in one shared resume code unit.
JoinCodeInOneUnit ==
    (fr.fn \in JoinFns /\ fr.done = Outcomes(fr.fn))
        => (/\ fr.frame_count = 2 * fr.fn.n + 1
            /\ \A pc \in JoinPoints(fr.fn) : Cardinality(FragsCovering(pc)) = 1)

\* C27 amended: a function with n if-blocks on tensor conditions whose
\* branches rejoin never has more than 2n + 1 graph fragments, and has
\* exactly 2n + 1 (7 for n = 3) once it has been called with all 2^n
\* combinations of branch outcomes; no code unit is compiled twice, and
\* the code after a join point is in the unit of the taken branch, which
\* runs on through the join, and in the unit that starts at the join: two
\* fragments, 3n + 1 operations in all.
JoinFragmentsLinear ==
    fr.fn \in JoinFns
        => (/\ fr.frame_count <= 2 * fr.fn.n + 1
            /\ fr.frame_count = Cardinality(fr.frags)
            /\ Cardinality({g.offset : g \in fr.frags}) = Cardinality(fr.frags)
            /\ \A pc \in JoinPoints(fr.fn) : Cardinality(FragsCovering(pc)) <= 2
            /\ fr.done = Outcomes(fr.fn)
                  => (/\ fr.frame_count = 2 * fr.fn.n + 1
                      /\ fr.op_count = 3 * fr.fn.n + 1
                      /\ \A pc \in JoinPoints(fr.fn) :
                            Cardinality(FragsCovering(pc)) = 2))

\* C27 witness: test_resume_paths_join (n = 3) after its eight calls has 7
\* fragments and 10 operations.
JoinFragmentsLinearWitness ==
    /\ fr.fn = [name |-> "test_resume_paths_join", n |-> 3]
    /\ Cardinality(fr.done) = 8
    /\ fr.frame_count = 7
    /\ fr.op_count = 10

ShapesOneOrK ==
    sizes # {}
        => Len(cache[3]) = (IF dynamic_shapes THEN 1 ELSE Cardinality(sizes))

\* C28 amended: the same up to config.cache_size_limit: the entries are k
\* or the limit, whichever is smaller, when dynamic_shapes is disabled, and
\* one, or none with a limit of 0, when it is enabled.
ShapesOneOrKWithinLimit ==
    sizes # {}
        => Len(cache[3]) =
              (IF dynamic_shapes
                  THEN (IF cache_size_limit >= 1 THEN 1 ELSE 0)
                  ELSE (IF Cardinality(sizes) <= cache_size_limit
                           THEN Cardinality(sizes) ELSE cache_size_limit))

\* C28 witness: two sizes were traced; there is one entry with
\* dynamic_shapes enabled.
ShapesOneOrKWithinLimitWitness ==
    /\ Cardinality(sizes) = 2
    /\ dynamic_shapes
    /\ cache_size_limit = 2
    /\ Len(cache[3]) = 1

\* The edges has_tensor follows out of an object, and the objects an
\* unmemoised search reaches through them.
ScanEdges(h, o) ==
    IF h[o].kind \in {"List", "Dict", "NamedTuple"}
           \/ (h[o].kind = "Obj" /\ ~is_allowed(h, o))
        THEN { h[o].kids[i] : i \in 1..Len(h[o].kids) }
        ELSE {}

RECURSIVE ScanReachable(_, _)
ScanReachable(h, S) ==
    LET N == S \cup UNION { ScanEdges(h, o) : o \in S }
    IN  IF N = S THEN S ELSE ScanReachable(h, N)

WrappedAlwaysTraced ==
    /\ always_optimize_code_objects = {3} \cup deco.optimized
    /\ \A code \in always_optimize_code_objects :
          \A locals \in LocalsChoices \cup {<<11, 2>>} :
              /\ has_tensor_in_frame(always_optimize_code_objects, code,
                                     CodeTable[code], locals)
              /\ ~has_tensor_in_frame_raises(always_optimize_code_objects, code,
                                             CodeTable[code], locals)

\* C31 witness: fn, wrapped by an optimize context, was called with locals
\* that hold no tensor and the call went on to the tracer.
WrappedAlwaysTracedWitness ==
    /\ deco.ctx # 0
    /\ CtxTable[deco.ctx].cls = "OptimizeContext"
    /\ deco.code = 1
    /\ last.kind = "miss"
    /\ last.code = 1
    /\ ~last.tensor
    /\ last.runs > 0

\* C32: when the wrapped conversion callback has returned or raised, the
\* grad mode, the RNG state and _forward_from_src are what they were just
\* before that call, at every level of nested conversions.
ConvertContextRestored ==
    wcc.exited => wcc.g = wcc.seen

\* C32 witness: a nested conversion changed all three globals and raised,
\* and it had been entered with other values than the outer conversion.
ConvertContextRestoredWitness ==
    /\ wcc.exited
    /\ wcc.how = "raise"
    /\ wcc.dirty
    /\ Len(wcc.stack) = 1
    /\ wcc.stack[1].grad # wcc.seen.grad
    /\ wcc.stack[1].rng # wcc.seen.rng
    /\ wcc.stack[1].fwd # wcc.seen.fwd

\* C33: the GuardedCode a conversion returns pairs the code object of one
\* tracing attempt with the guards and cleanups of that same attempt, and
\* that attempt did not end in RestartAnalysis: nothing of a restarted
\* attempt is in the entry.
EntryFromOneAttempt ==
    att.pc = "returned"
        => /\ att.entry.code >= 0
           /\ att.entry.guards = {att.entry.code}
           /\ att.entry.cleanups = {att.entry.code}
           /\ att.entry.code \notin att.restarted
           /\ att.entry.guards \cap att.restarted = {}

\* C33 witness: a conversion returned an entry after two restarted attempts.
EntryFromOneAttemptWitness ==
    /\ att.pc = "returned"
    /\ att.restarted = {0, 1}
    /\ att.entry.code = 2

\* C34: compile_lock is held only by a thread whose conversion callback is
\* in progress; a thread for which catch_errors has returned or raised,
\* whatever the callback raised, does not hold it, so a thread waiting at
\* the lock waits for a callback in progress, never for a finished call.
LockHeldOnlyInCallback ==
    /\ \A t \in Threads : compile_lock = t => InCallback(t)
    /\ \A t \in Threads : th[t].pc = "idle" => compile_lock # t
    /\ compile_lock \in Threads \cup {0}

\* C34 witness: one thread's conversion failed with an internal error, and
\* afterwards another thread acquired the lock and is converting.
LockHeldOnlyInCallbackWitness ==
    \E t, u \in Threads :
        /\ t # u
        /\ th[t].pc = "idle"
        /\ th[t].locked
        /\ th[t].exc = "InternalTorchDynamoError"
        /\ th[u].pc = "converting"
        /\ compile_lock = u

\* C35: when threads use one context object in overlapping with blocks,
\* the exit of each thread restores the callback that thread had before
\* its own entry and exits the backend context that thread entered.
SharedContextExitRestoresOwn ==
    shared.log.t # 0
        => /\ ~shared.log.raised
           /\ shared.log.after = shared.before[shared.log.t]
           /\ shared.log.exited = shared.log.t

\* C36: a live object is in the tracker exactly when it was added since the
\* last clear; an add of an object already in the tracker appends no weak
\* reference; every id in seen_ids is the idx of a weak reference in seen
\* whose referent is alive; no removal callback raised KeyError.
TrackerConsistent ==
    /\ \A o \in trk.alive : Tracker_contains(trk, o) <=> o \in trk.added
    /\ trk.again => ~trk.grew
    /\ \A i \in trk.seen_ids :
          \E k \in DOMAIN trk.seen :
              trk.seen[k].idx = i /\ trk.seen[k].obj \in trk.alive
    /\ ~trk.keyerror

\* C36 witness: an object was added and died, and a later object at the
\* same address was added twice.
TrackerConsistentWitness ==
    /\ Len(trk.seen) = 2
    /\ trk.seen[1].obj = 1
    /\ trk.seen[2].obj = 3
    /\ trk.seen[2].idx = trk.seen[1].idx
    /\ 1 \notin trk.alive
    /\ trk.added = {1, 3}
    /\ trk.again

\* C37 as stated: the first call is the warm-up and sets warmed_up, the
\* second records, every later call replays, and the wrapped module is
\* invoked at most twice.
CudaGraphTwoRuns ==
    /\ cg.n = 1 => (cg.last.path = "warmup" /\ cg.warmed_up)
    /\ cg.n = 2 => cg.last.path = "record"
    /\ cg.n >= 3 => cg.last.path = "replay"
    /\ cg.gm_calls <= 2

\* C37, amended: the branch a call takes is that of the phase the module is
\* in (warm-up, record, replay) and the phase never goes backwards; a
\* warm-up call sets warmed_up exactly when the wrapped module returns; a
\* replay call does not invoke the wrapped module; the module is invoked at
\* most once after warmed_up was set, and at most twice in total when no
\* warm-up call raised.
CudaGraphPhasesInOrder ==
    cg.n > 0
        => /\ cg.last.path = (CASE cg.last.pre = 0 -> "warmup"
                                [] cg.last.pre = 1 -> "record"
                                [] OTHER -> "replay")
           /\ CgPhase(cg) >= cg.last.pre
           /\ cg.last.path = "warmup" => (cg.warmed_up <=> ~cg.last.raised)
           /\ cg.last.path = "replay" => ~cg.last.gm
           /\ cg.last.path = "replay" => cg.last.copied = cg.mutated_inputs
           /\ cg.gm_warm <= 1
           /\ ~cg.failed => cg.gm_calls <= 2

\* C37 witness: after a warm-up call that raised, a warm-up, a record and a
\* replay followed.
CudaGraphPhasesInOrderWitness ==
    /\ cg.n = 4
    /\ cg.failed
    /\ cg.last.path = "replay"
    /\ cg.static_outputs
    /\ cg.gm_calls = 3

\* C38: between calls graph, static_inputs and static_outputs are all unset
\* or all set, and a replay never reads static_outputs unset.
CudaGraphAllOrNone ==
    /\ cg.graph = (cg.static_inputs # 0)
    /\ cg.graph = cg.static_outputs
    /\ cg.last.path = "replay" => cg.last.outputs

====
